---- MODULE Spec2Model ----
(***************************************************************************)
(* A model of the query evaluators of the poly-ir-toolkit                  *)
(* (src/src/query_processor.cc), of the list cursor they drive             *)
(* (src/src/index_reader.h) and of the layer splitting of                  *)
(* src/src/index_layerify.cc.                                              *)
(*                                                                         *)
(* Scores are BM25 partial scores in fixed point (thousandths, truncated): *)
(* the float arithmetic of the code is replaced by exact integer           *)
(* arithmetic on the same formula.                                         *)
(***************************************************************************)
EXTENDS Integers, Sequences, FiniteSets, TLC

VARIABLES
  index,                      \* the collection: index[t][d] = frequency of term t in doc d (0: no posting)
  index_layered_,             \* QueryProcessor::index_layered_
  index_overlapping_layers_,  \* QueryProcessor::index_overlapping_layers_
  index_num_layers_,          \* QueryProcessor::index_num_layers_
  query_algorithm_,           \* QueryProcessor::query_algorithm_
  max_num_results_,           \* QueryProcessor::max_num_results_ (k)
  query_term_data,            \* the terms of the query that were found in the lexicon, in query order
  pc,                         \* position of the running evaluator
  lists,                      \* the ListData cursors of the running list routine
  merge_lists,                \* IntersectLists: the merge lists (<<>> when NULL)
  lists_curr_postings,        \* MergeLists: the <<docID, list index>> pairs of the lists with postings remaining
  did,                        \* IntersectLists: did
  results,                    \* the Result array, a sequence of <<score, docID>>
  total_num_results,          \* total_num_results of the running routine
  scored,                     \* history: the <<score, docID>> pairs the running routine scored, in order
  num_results,                \* *num_results as reported to the caller (-1 before the evaluator returns)
  locals,                     \* the remaining locals of the running evaluator, a record
  stop_words_,                \* QueryProcessor::stop_words_
  words                       \* ExecuteQuery: the words of the query line, after the stop list, sorted, unique

config == <<index, index_layered_, index_overlapping_layers_, index_num_layers_,
            query_algorithm_, max_num_results_, query_term_data, stop_words_, words>>

vars == <<index, index_layered_, index_overlapping_layers_, index_num_layers_,
          query_algorithm_, max_num_results_, query_term_data,
          pc, lists, merge_lists, lists_curr_postings, did,
          results, total_num_results, scored, num_results, locals, stop_words_, words>>

-----------------------------------------------------------------------------
(* Bounds of the model.                                                    *)

MaxDocId == 2          \* docIDs are 0..MaxDocId
MaxPostings == 4       \* postings in the whole collection, for the evaluators on single layers
MaxLayeredPostings == 7  \* postings in the whole collection, for the evaluators on layers
MaxResults == 2        \* k ranges over 1..MaxResults
ChunkDocs == 2         \* postings per chunk (CHUNK_SIZE is 128 in the code)
BlockChunks == 2       \* chunks per block

Terms == {1, 2, 3}
Freqs == {1, 2}
Docs == 0..MaxDocId

(* ListData::kNoMoreDocs, numeric_limits<uint32_t>::max(): the largest     *)
(* integer of the model, above every docID and every docID plus one        *)
kNoMoreDocs == 2147483647

Min(a, b) == IF a < b THEN a ELSE b
Max(a, b) == IF a > b THEN a ELSE b

RECURSIVE SumSeq(_)
SumSeq(s) == IF s = <<>> THEN 0 ELSE Head(s) + SumSeq(Tail(s))

RECURSIVE SetToSeq(_)
(* the elements of a finite set of integers in ascending order *)
SetToSeq(S) ==
  IF S = {} THEN <<>>
  ELSE LET m == CHOOSE x \in S : \A y \in S : x <= y
       IN <<m>> \o SetToSeq(S \ {m})

Range(s) == {s[i] : i \in 1..Len(s)}

RECURSIVE Tuple(_, _)
(* the array of the first n values of f *)
Tuple(f, n) == IF n = 0 THEN <<>> ELSE Append(Tuple(f, n - 1), f[n])

-----------------------------------------------------------------------------
(* The collection and BM25.                                                *)

Cells == Terms \X Docs

(* every collection with at most n postings *)
IndexesUpTo(n) ==
  {ix \in [Terms -> [Docs -> {0} \cup Freqs]] :
     Cardinality({c \in Cells : ix[c[1]][c[2]] > 0}) <= n}

(* DocumentMapReader::GetDocLen: the document map is a fixture in which
   documents share lengths, so that different documents can score the same *)
DocLen(d) == 1 + (d % 2)

collection_total_num_docs_ == MaxDocId + 1

collection_average_doc_len_ ==
  SumSeq([i \in 1..(MaxDocId + 1) |-> DocLen(i - 1)]) \div collection_total_num_docs_

(* floor(1000 * log10(1 + (N - n + 0.5) / (n + 0.5))) *)
Log10Idf(N, n) ==
  CASE N = 2 -> <<301, 79>>[n]
    [] N = 3 -> <<425, 204, 57>>[n]
    [] N = 4 -> <<522, 301, 154, 45>>[n]
    [] N = 5 -> <<602, 380, 234, 124, 37>>[n]
    [] N = 6 -> <<669, 447, 301, 191, 104, 32>>[n]
    [] N = 1000 -> CASE n = 1 -> 2824 [] n = 2 -> 2602 [] n = 3 -> 2456 [] n = 4 -> 2347
                     [] n = 5 -> 2260 [] n = 128 -> 891 [] n = 130 -> 884 [] n = 200 -> 698

Idf(num_docs_t) == Log10Idf(collection_total_num_docs_, num_docs_t)

(* idf * (f * (k1 + 1)) / (f + k1 * (1 - b) + k1 * b * doc_len / avg), k1 = 2, b = 0.75 *)
Bm25(idf_t, f_d_t, doc_len) ==
  (idf_t * (f_d_t * 3) * (2 * collection_average_doc_len_))
    \div ((2 * f_d_t + 1) * collection_average_doc_len_ + 3 * doc_len)

(* the postings of term t: its docIDs in ascending order *)
TermDocs(ix, t) == SetToSeq({d \in Docs : ix[t][d] > 0})

-----------------------------------------------------------------------------
(* The comparators of query_processor.h and index_reader.h, and the        *)
(* standard library routines the evaluators call with them (libstdc++:     *)
(* push_heap, pop_heap, and sort, which is an insertion sort on the short  *)
(* ranges the evaluators sort).                                            *)

Comp(kind, l, r) ==
  CASE kind = "ResultCompare" -> l[1] > r[1]
    [] kind = "greater" -> l > r
    [] kind = "greaterPair" -> l[1] > r[1] \/ (l[1] = r[1] /\ l[2] > r[2])
    [] kind = "ListCompare" -> l.num_docs < r.num_docs
    [] kind = "ListDocIdCompare" -> l[1] < r[1]
    [] kind = "ListLayerMaxScoreCompare" -> l.score_threshold > r.score_threshold
    [] kind = "DocIdScoreComparison" -> l.score > r.score
    [] kind = "AccumulatorDocId" -> l.doc_id < r.doc_id
    [] kind = "IndexEntryDocIdComparison" -> l.doc_id < r.doc_id
    [] kind = "string" -> l < r
    [] kind = "AccumulatorScoreAscendingCompare" -> l.curr_score < r.curr_score
    [] kind = "AccumulatorScoreDescendingCompare" -> l.curr_score > r.curr_score
    [] kind = "less" ->
         \/ l[1][1] < r[1][1]
         \/ l[1][1] = r[1][1] /\ l[1][2] < r[1][2]
         \/ l[1] = r[1] /\ l[2][1] < r[2][1]
         \/ l[1] = r[1] /\ l[2][1] = r[2][1] /\ l[2][2] < r[2][2]

(* s with the element at 0-based position i set to v *)
Put(s, i, v) == IF i + 1 <= Len(s) THEN [s EXCEPT ![i + 1] = v] ELSE Append(s, v)

RECURSIVE PushHeapLoop(_, _, _, _, _)
(* std::__push_heap(first, holeIndex, topIndex, value, comp) *)
PushHeapLoop(kind, s, holeIndex, topIndex, value) ==
  LET parent == (holeIndex - 1) \div 2 IN
  IF holeIndex > topIndex /\ Comp(kind, s[parent + 1], value)
  THEN PushHeapLoop(kind, Put(s, holeIndex, s[parent + 1]), parent, topIndex, value)
  ELSE Put(s, holeIndex, value)

(* std::push_heap(s, s + n, comp) *)
PushHeap(kind, s, n) == PushHeapLoop(kind, s, n - 1, 0, s[n])

RECURSIVE AdjustHeapLoop(_, _, _, _, _)
(* the sift-down loop of std::__adjust_heap; yields <<s, holeIndex, secondChild>> *)
AdjustHeapLoop(kind, s, holeIndex, secondChild, len) ==
  IF secondChild < (len - 1) \div 2
  THEN LET c0 == 2 * (secondChild + 1) IN
       LET c == IF Comp(kind, s[c0 + 1], s[c0]) THEN c0 - 1 ELSE c0 IN
       AdjustHeapLoop(kind, Put(s, holeIndex, s[c + 1]), c, c, len)
  ELSE <<s, holeIndex, secondChild>>

(* std::__adjust_heap(first, holeIndex, len, value, comp) *)
AdjustHeap(kind, s, holeIndex, len, value) ==
  LET a == AdjustHeapLoop(kind, s, holeIndex, holeIndex, len) IN
  LET b == IF len % 2 = 0 /\ a[3] = (len - 2) \div 2
           THEN <<Put(a[1], a[2], a[1][2 * (a[3] + 1)]), 2 * (a[3] + 1) - 1>>
           ELSE <<a[1], a[2]>> IN
  PushHeapLoop(kind, b[1], b[2], holeIndex, value)

RECURSIVE MakeHeapLoop(_, _, _, _)
(* the loop of std::__make_heap over the parents, last parent first *)
MakeHeapLoop(kind, s, len, parent) ==
  IF parent < 0 THEN s
  ELSE MakeHeapLoop(kind, AdjustHeap(kind, s, parent, len, s[parent + 1]), len, parent - 1)

(* std::make_heap(s, s + len, comp) *)
MakeHeap(kind, s, len) == IF len < 2 THEN s ELSE MakeHeapLoop(kind, s, len, (len - 2) \div 2)

(* std::pop_heap(s, s + n, comp): the top moves to position n - 1 *)
PopHeap(kind, s, n) ==
  IF n > 1
  THEN LET value == s[n] IN AdjustHeap(kind, Put(s, n - 1, s[1]), 0, n - 1, value)
  ELSE s

RECURSIVE LinearInsert(_, _, _, _, _)
(* std::__unguarded_linear_insert, guarded by the front test of __insertion_sort:
   val moves left past every element it precedes *)
LinearInsert(kind, s, first, next, val) ==
  IF next >= first /\ Comp(kind, val, s[next + 1])
  THEN LinearInsert(kind, Put(s, next + 1, s[next + 1]), first, next - 1, val)
  ELSE Put(s, next + 1, val)

RECURSIVE InsertionSort(_, _, _, _, _)
(* std::__insertion_sort(s + first, s + last, comp), at element i *)
InsertionSort(kind, s, first, i, last) ==
  IF i >= last THEN s
  ELSE InsertionSort(kind, LinearInsert(kind, s, first, i - 1, s[i + 1]), first, i + 1, last)

(* std::sort(s + first, s + last, comp) *)
Sort(kind, s, first, last) ==
  IF last - first < 2 THEN s ELSE InsertionSort(kind, s, first, first + 1, last)

-----------------------------------------------------------------------------
(* LayeredIndexGenerator::CreateLayeredIndex: the layers of one term.      *)

kLayerMinSize == 128
layer_percentages == <<5, 5, 10, 15, 25, 40, 0, 0>>
layer_max_sizes == <<1024, 8192, 0, 0, 0, 0, 0, 0>>
kOverlappingLayerThresholdIncludesAllDocs == FALSE

(* DocIdScoreComparison::Bm25Score of a posting of a list of num_docs_in_list postings *)
Bm25Score(num_docs_in_list, e) == Bm25(Idf(num_docs_in_list), e.frequency, DocLen(e.doc_id))

(* index_entry_buffer after the sort by score (line 229): highest score first *)
ScoreSortedEntries(ix, t) ==
  LET ds == TermDocs(ix, t) IN
  LET buf == [i \in 1..Len(ds) |->
                [doc_id |-> ds[i], frequency |-> ix[t][ds[i]],
                 score |-> Bm25(Idf(Len(ds)), ix[t][ds[i]], DocLen(ds[i]))]] IN
  Sort("DocIdScoreComparison", Tuple(buf, Len(ds)), 0, Len(ds))

(* a variant of the sizing that never raises a layer to the minimum size *)
LayerSizeNoMinimum(i, total_num_postings, num_postings_left) == Min((layer_percentages[i + 1] * total_num_postings) \div 100, num_postings_left)

(* the size the splitting strategy kPercentageFixedBounded gives layer i (0-based),
   normalised to the postings left and to the minimum layer size (lines 245-272) *)
LayerSize(i, total_num_postings, num_postings_left) ==
  LET pct == (layer_percentages[i + 1] * total_num_postings) \div 100 IN
  LET bounded == IF layer_max_sizes[i + 1] # 0 THEN Min(pct, layer_max_sizes[i + 1]) ELSE pct IN
  LET n == Min(bounded, num_postings_left) IN
  IF n < kLayerMinSize /\ num_postings_left >= kLayerMinSize THEN kLayerMinSize ELSE n

(* a variant of the do-while that leaves the boundary where the sizes put it *)
FixUpLayerNever(buf, i, num_layers, num_postings_curr_layer, num_postings_left) == <<num_postings_curr_layer, num_postings_left>>

RECURSIVE FixUpLayer(_, _, _, _, _)
(* the do-while of lines 288-306; yields <<num_postings_curr_layer, num_postings_left>> *)
FixUpLayer(buf, i, num_layers, num_postings_curr_layer, num_postings_left) ==
  IF i = num_layers - 1 \/ num_postings_left <= 0
  THEN <<num_postings_curr_layer, num_postings_left>>
  ELSE LET total_num_postings == Len(buf) IN
       LET curr_layer_threshold_idx == total_num_postings - num_postings_left - num_postings_curr_layer IN
       LET next_layer_threshold_idx == total_num_postings - num_postings_left IN
       IF buf[curr_layer_threshold_idx + 1].score <= buf[next_layer_threshold_idx + 1].score
       THEN FixUpLayer(buf, i, num_layers, num_postings_curr_layer + 1, num_postings_left - 1)
       ELSE <<num_postings_curr_layer, num_postings_left>>

RECURSIVE SplitLayers(_, _, _, _, _)
(* the per-layer loop of lines 238-327: the layers written for one term, each
   with its docIDs in ascending order and its score threshold *)
SplitLayers(buf, overlapping_layers_, num_layers_, i, num_postings_left) ==
  IF i >= num_layers_ \/ num_postings_left <= 0 THEN <<>>
  ELSE LET total_num_postings == Len(buf) IN
       LET n0 == LayerSize(i, total_num_postings, num_postings_left) IN
       LET left0 == num_postings_left - n0 IN
       LET n1 == IF i = num_layers_ - 1 /\ left0 > 0 THEN n0 + left0 ELSE n0 IN
       LET left1 == IF i = num_layers_ - 1 /\ left0 > 0 THEN 0 ELSE left0 IN
       LET fx == FixUpLayer(buf, i, num_layers_, n1, left1) IN
       LET curr_layer_start == total_num_postings - fx[2] - fx[1] IN
       LET layer_start == IF overlapping_layers_ THEN 0 ELSE curr_layer_start IN
       LET layer == [docs |-> SetToSeq({buf[j].doc_id : j \in (layer_start + 1)..(curr_layer_start + fx[1])}),
                     num_docs |-> curr_layer_start + fx[1] - layer_start,
                     score_threshold |-> buf[curr_layer_start + 1].score]
       IN <<layer>> \o SplitLayers(buf, overlapping_layers_, num_layers_, i + 1, fx[2])

(* a variant of CreateLayeredIndex that writes layers that do not overlap *)
CreateDisjointLayers(ix, t, overlapping_layers_, num_layers_) ==
  CHOOSE layers \in {SplitLayers(buf, FALSE, num_layers_, 0, Len(buf))
                       : buf \in {ScoreSortedEntries(ix, t)}} : TRUE

(* the layers of term t in the index the generator writes *)
CreateLayeredIndex(ix, t, overlapping_layers_, num_layers_) ==
  CHOOSE layers \in {SplitLayers(buf, overlapping_layers_, num_layers_, 0, Len(buf))
                       : buf \in {ScoreSortedEntries(ix, t)}} : TRUE

(* the single layer of term t in an index that is not layered *)
SingleLayer(ix, t) ==
  CHOOSE layers \in {<<[docs |-> TermDocs(ix, t), num_docs |-> Len(buf),
                        score_threshold |-> buf[1].score]>>
                       : buf \in {ScoreSortedEntries(ix, t)}} : TRUE

-----------------------------------------------------------------------------
(* The list cursor (ListData).  A layer is stored as chunks of ChunkDocs   *)
(* docID gaps, BlockChunks chunks to a block; the cursor keeps its block,  *)
(* its chunk, its offset in the chunk and the docID decoded before that    *)
(* offset.                                                                 *)

(* the layers the lexicon holds for term t *)
LexiconLayers(ix, layered, overlapping, num_layers, t) ==
  IF layered THEN CreateLayeredIndex(ix, t, overlapping, num_layers) ELSE SingleLayer(ix, t)

(* the ListData of a layer: the cursor on its first block, first chunk, first posting *)
ListData(t, layer_num, layer, num_docs_complete_list) ==
  [term |-> t, layer_num |-> layer_num, docs |-> layer.docs, num_docs |-> layer.num_docs,
   num_docs_complete_list |-> num_docs_complete_list, score_threshold |-> layer.score_threshold,
   curr_block |-> 0, curr_chunk |-> 0, curr_document_offset |-> 0, prev_decoded_doc_id |-> 0]

(* IndexReader::OpenList(lex_entry, layer_num, single_term_query) *)
OpenList(ix, layered, overlapping, num_layers, t, layer_num) ==
  CHOOSE l \in {ListData(t, layer_num, layer, Len(TermDocs(ix, t)))
                  : layer \in {LexiconLayers(ix, layered, overlapping, num_layers, t)[layer_num + 1]}}
    : TRUE

NumChunks(l) == (l.num_docs + ChunkDocs - 1) \div ChunkDocs
NumBlocks(l) == (NumChunks(l) + BlockChunks - 1) \div BlockChunks
ChunkNumDocs(l, c) == Min(ChunkDocs, l.num_docs - c * ChunkDocs)

(* the per-chunk last docIDs of the block header *)
ChunkLastDocId(l, c) == l.docs[c * ChunkDocs + ChunkNumDocs(l, c)]

(* the in-memory last_doc_ids array of the blocks *)
BlockLastDocId(l, b) == ChunkLastDocId(l, Min((b + 1) * BlockChunks, NumChunks(l)) - 1)

(* the docID the gaps of chunk c start from *)
ChunkBase(l, c) == IF c = 0 THEN 0 ELSE ChunkLastDocId(l, c - 1)

(* the k-th stored doc-id gap of chunk c *)
DocIdGap(l, c, k) ==
  l.docs[c * ChunkDocs + k + 1] - (IF k = 0 THEN ChunkBase(l, c) ELSE l.docs[c * ChunkDocs + k])

has_more(l) == l.curr_block < NumBlocks(l)

RECURSIVE AdvanceBlock(_, _)
(* NextGEQ step 1: advance blocks while the target is past the block's last docID *)
AdvanceBlock(l, doc_id) ==
  IF has_more(l) /\ doc_id > BlockLastDocId(l, l.curr_block)
  THEN CHOOSE out \in
         {AdvanceBlock(next, doc_id)
            : next \in {[l EXCEPT !.curr_block = @ + 1,
                                  !.curr_chunk = (l.curr_block + 1) * BlockChunks,
                                  !.curr_document_offset = 0,
                                  !.prev_decoded_doc_id = BlockLastDocId(l, l.curr_block)]}}
         : TRUE
  ELSE l

RECURSIVE AdvanceChunk(_, _)
(* NextGEQ step 2: advance chunks until the chunk's last docID reaches the target *)
AdvanceChunk(l, doc_id) ==
  IF doc_id > ChunkLastDocId(l, l.curr_chunk)
  THEN CHOOSE out \in
         {AdvanceChunk(next, doc_id)
            : next \in {[l EXCEPT !.curr_chunk = @ + 1,
                                  !.curr_document_offset = 0,
                                  !.prev_decoded_doc_id = ChunkLastDocId(l, l.curr_chunk)]}}
         : TRUE
  ELSE l

(* no walk: the cursor stays on the posting it is on *)
DecodeNoWalk(l, doc_id) == l

RECURSIVE DecodeForward(_, _)
(* NextGEQ step 3: walk the gaps from curr_document_offset until the docID reaches the target *)
DecodeForward(l, doc_id) ==
  CHOOSE out \in
    {IF absolute >= doc_id THEN l
     ELSE CHOOSE walked \in
            {DecodeForward(next, doc_id)
               : next \in {[l EXCEPT !.curr_document_offset = @ + 1,
                                     !.prev_decoded_doc_id = absolute]}}
            : TRUE
       : absolute \in {l.prev_decoded_doc_id
                         + DocIdGap(l, l.curr_chunk, l.curr_document_offset)}}
    : TRUE

(* ListData::NextGEQ(doc_id): the cursor after the call *)
NextGEQ(l, doc_id) ==
  CHOOSE out \in
    {IF has_more(b)
     THEN CHOOSE decoded \in {DecodeForward(c, doc_id) : c \in {AdvanceChunk(b, doc_id)}} : TRUE
     ELSE b
       : b \in {CHOOSE start \in {AdvanceBlock(cursor, target) : cursor \in {l}, target \in {doc_id}}
                   : TRUE}}
    : TRUE

(* the docID a NextGEQ call returns: the docID under the cursor, or the sentinel *)
CurrDocId(l) ==
  IF has_more(l)
  THEN l.prev_decoded_doc_id + DocIdGap(l, l.curr_chunk, l.curr_document_offset)
  ELSE kNoMoreDocs

(* ListData::GetFreq(): the frequency stored with the posting under the cursor *)
GetFreq(ix, l) == ix[l.term][CurrDocId(l)]

-----------------------------------------------------------------------------
(* QueryProcessor::IntersectLists.                                         *)

RECURSIVE Bm25Sum(_, _, _, _)
(* lines 2107-2112: the BM25 sum of the postings under the cursors lists[i..] for docID did *)
Bm25Sum(ix, ls, i, doc_id) ==
  IF i >= Len(ls) THEN 0
  ELSE Bm25(Idf(ls[i + 1].num_docs_complete_list), GetFreq(ix, ls[i + 1]), DocLen(doc_id))
       + Bm25Sum(ix, ls, i + 1, doc_id)

(* a variant of TopKInsert that never replaces the lowest of a full heap *)
TopKInsertNoReplace(res, total, k, bm25_sum, doc_id) ==
  IF total < k
  THEN PushHeap("ResultCompare", Put(res, total, <<bm25_sum, doc_id>>), total + 1)
  ELSE res

(* lines 2163-2175: offer <<bm25_sum, did>> to the heap of the top num_results *)
TopKInsert(res, total, k, bm25_sum, doc_id) ==
  IF total < k
  THEN PushHeap("ResultCompare", Put(res, total, <<bm25_sum, doc_id>>), total + 1)
  ELSE IF bm25_sum > res[1][1]
       THEN PushHeap("ResultCompare", Put(PopHeap("ResultCompare", res, k), k - 1, <<bm25_sum, doc_id>>), k)
       ELSE res

(* lines 2071-2080: every merge list advanced to did *)
MergeListsNextGEQ(ls, doc_id) == [i \in 1..Len(ls) |-> NextGEQ(ls[i], doc_id)]

RECURSIVE MinDocId(_, _, _)
(* lines 2072-2078: the smallest docID under the merge cursors *)
MinDocId(ls, i, min_doc_id) ==
  IF i >= Len(ls) THEN min_doc_id
  ELSE MinDocId(ls, i + 1, IF CurrDocId(ls[i + 1]) < min_doc_id THEN CurrDocId(ls[i + 1]) ELSE min_doc_id)

(* a variant of InnerLoop that leaves the other lists unvisited *)
InnerLoopNoAdvance(ls, i, doc_id, d) == <<ls, d>>

RECURSIVE InnerLoop(_, _, _, _)
(* lines 2094-2098: advance lists[i..] to did while they hold did; yields <<lists, d>> *)
InnerLoop(ls, i, doc_id, d) ==
  IF i < Len(ls)
  THEN LET l == NextGEQ(ls[i + 1], doc_id) IN
       IF CurrDocId(l) = doc_id
       THEN InnerLoop(Put(ls, i, l), i + 1, doc_id, doc_id)
       ELSE <<Put(ls, i, l), CurrDocId(l)>>
  ELSE <<ls, d>>

(* lines 2070-2181: one iteration of the while loop on the state of the routine *)
IntersectListsIter(ix, st, k) ==
  LET merging == st.merge_lists # <<>> IN
  LET m == IF merging THEN MergeListsNextGEQ(st.merge_lists, st.did) ELSE <<>> IN
  LET l0 == IF merging THEN st.lists ELSE Put(st.lists, 0, NextGEQ(st.lists[1], st.did)) IN
  LET did0 == IF merging THEN MinDocId(m, 0, kNoMoreDocs) ELSE CurrDocId(l0[1]) IN
  IF did0 = kNoMoreDocs
  THEN [st EXCEPT !.lists = l0, !.merge_lists = m, !.did = did0]
  ELSE LET in == InnerLoop(l0, IF merging THEN 0 ELSE 1, did0, did0) IN
       IF in[2] > did0
       THEN [st EXCEPT !.lists = in[1], !.merge_lists = m, !.did = in[2]]
       ELSE LET bm25_sum == Bm25Sum(ix, in[1], 0, did0) IN
            [st EXCEPT !.lists = in[1], !.merge_lists = m, !.did = did0 + 1,
                       !.results = TopKInsert(st.results, st.total_num_results, k, bm25_sum, did0),
                       !.total_num_results = @ + 1,
                       !.scored = Append(@, <<bm25_sum, did0>>)]

(* line 2184: the final sort of the filled part of the results *)
SortResults(res, total, k) == Sort("ResultCompare", res, 0, Min(k, total))

RECURSIVE IntersectListsRun(_, _, _)
IntersectListsRun(ix, st, k) ==
  IF st.did < kNoMoreDocs THEN IntersectListsRun(ix, IntersectListsIter(ix, st, k), k)
  ELSE [st EXCEPT !.results = SortResults(st.results, st.total_num_results, k)]

(* IntersectLists(merge_lists, num_merge_lists, lists, num_lists, results, num_results),
   run to its return: the state of the routine when it returns *)
IntersectLists(ix, m, ls, k) ==
  IntersectListsRun(ix, [lists |-> ls, merge_lists |-> m, did |-> 0, results |-> <<>>,
                         total_num_results |-> 0, scored |-> <<>>], k)

-----------------------------------------------------------------------------
(* QueryProcessor::MergeLists(lists, num_lists, results, num_results),     *)
(* with kScoreCompleteDoc and kUseArrayInsteadOfHeapList.                  *)

RECURSIVE InitCurrPostings(_, _, _)
(* lines 1236-1243: the first posting of every list; yields <<lists, lists_curr_postings>> *)
InitCurrPostings(ls, i, postings) ==
  IF i >= Len(ls) THEN <<ls, postings>>
  ELSE LET l == NextGEQ(ls[i + 1], 0) IN
       InitCurrPostings(Put(ls, i, l), i + 1,
                        IF CurrDocId(l) < kNoMoreDocs THEN Append(postings, <<CurrDocId(l), i>>)
                        ELSE postings)

(* a variant of FindTop that takes the first posting of the array *)
FindTopFirst(postings, i, top) == 0

RECURSIVE FindTop(_, _, _)
(* lines 1271-1277: the position of the first posting with the lowest docID *)
FindTop(postings, i, top) ==
  IF i >= Len(postings) THEN top
  ELSE FindTop(postings, i + 1, IF postings[i + 1][1] < postings[top + 1][1] THEN i ELSE top)

(* lines 1293-1301: the posting at top leaves the array, the last posting takes its place *)
DropList(postings, top) ==
  LET num_lists_remaining == Len(postings) - 1 IN
  IF top = num_lists_remaining THEN SubSeq(postings, 1, num_lists_remaining)
  ELSE Put(SubSeq(postings, 1, num_lists_remaining), top, postings[num_lists_remaining + 1])

RECURSIVE ScoreCompleteDoc(_, _, _, _, _, _)
(* lines 1281-1304: score curr_doc_id over the postings from top on, advancing each
   list that holds it; yields <<lists, lists_curr_postings, bm25_sum>> *)
ScoreCompleteDoc(ix, ls, postings, top, curr_doc_id, bm25_sum) ==
  IF top >= Len(postings) THEN <<ls, postings, bm25_sum>>
  ELSE IF postings[top + 1][1] = curr_doc_id
       THEN LET j == postings[top + 1][2] IN
            LET sum == bm25_sum + Bm25(Idf(ls[j + 1].num_docs_complete_list),
                                       GetFreq(ix, ls[j + 1]), DocLen(curr_doc_id)) IN
            LET l == NextGEQ(ls[j + 1], curr_doc_id + 1) IN
            IF CurrDocId(l) = kNoMoreDocs
            THEN ScoreCompleteDoc(ix, Put(ls, j, l), DropList(postings, top), top, curr_doc_id, sum)
            ELSE ScoreCompleteDoc(ix, Put(ls, j, l), Put(postings, top, <<CurrDocId(l), j>>),
                                  top + 1, curr_doc_id, sum)
       ELSE ScoreCompleteDoc(ix, ls, postings, top + 1, curr_doc_id, bm25_sum)

(* lines 1270-1321: one iteration of the while loop on the state of the routine *)
MergeListsIter(ix, st, k) ==
  LET top == FindTop(st.lists_curr_postings, 1, 0) IN
  LET curr_doc_id == st.lists_curr_postings[top + 1][1] IN
  LET sc == ScoreCompleteDoc(ix, st.lists, st.lists_curr_postings, top, curr_doc_id, 0) IN
  [st EXCEPT !.lists = sc[1], !.lists_curr_postings = sc[2],
             !.results = TopKInsert(st.results, st.total_num_results, k, sc[3], curr_doc_id),
             !.total_num_results = @ + 1,
             !.scored = Append(@, <<sc[3], curr_doc_id>>)]

RECURSIVE MergeListsRun(_, _, _)
MergeListsRun(ix, st, k) ==
  IF Len(st.lists_curr_postings) > 0 THEN MergeListsRun(ix, MergeListsIter(ix, st, k), k)
  ELSE [st EXCEPT !.results = SortResults(st.results, st.total_num_results, k)]

(* lines 1210-1252: the state of the routine when it enters the while loop *)
MergeListsInit(ls) ==
  LET ip == InitCurrPostings(ls, 0, <<>>) IN
  [lists |-> ip[1], lists_curr_postings |-> ip[2], results |-> <<>>,
   total_num_results |-> 0, scored |-> <<>>]

(* MergeLists run to its return: the state of the routine when it returns *)
MergeLists(ix, ls, k) == MergeListsRun(ix, MergeListsInit(ls), k)

-----------------------------------------------------------------------------
(* QueryProcessor::ProcessQuery with kDaatAnd and kDaatOr, on an index     *)
(* that is not layered and on its version with two overlapping layers.     *)

(* the terms of the lexicon: those with a posting *)
LexiconTerms(ix) == {t \in Terms : \E d \in Docs : ix[t][d] > 0}

(* the query of every term of the lexicon.  The terms of a collection are
   interchangeable and IndexesUpTo holds every collection, so this query on every
   collection covers every query of distinct terms, in every order, on every
   collection. *)
AllTermsQuery(ix) == SetToSeq(LexiconTerms(ix))

(* the state of IntersectLists held in the variables *)
IntersectState ==
  [lists |-> lists, merge_lists |-> merge_lists, did |-> did, results |-> results,
   total_num_results |-> total_num_results, scored |-> scored]

(* the state of MergeLists held in the variables *)
MergeState ==
  [lists |-> lists, lists_curr_postings |-> lists_curr_postings, results |-> results,
   total_num_results |-> total_num_results, scored |-> scored]

(* lines 273-279: the cursors on the last layer of every query term *)
OpenLastLayers(ix, layered, overlapping, num_layers, q) ==
  Tuple([i \in 1..Len(q) |->
           OpenList(ix, layered, overlapping, num_layers, q[i],
                    Len(LexiconLayers(ix, layered, overlapping, num_layers, q[i])) - 1)],
        Len(q))

Init ==
  /\ index \in IndexesUpTo(MaxPostings)
  /\ index_layered_ \in BOOLEAN
  /\ index_overlapping_layers_ = index_layered_
  /\ index_num_layers_ = IF index_layered_ THEN 2 ELSE 1
  /\ query_algorithm_ \in {"kDaatAnd", "kDaatOr"}
  /\ max_num_results_ \in 1..MaxResults
  /\ LexiconTerms(index) # {}
  /\ query_term_data = AllTermsQuery(index)
  /\ stop_words_ = {}
  /\ words = query_term_data
  /\ pc = "ProcessQuery"
  /\ lists = <<>>
  /\ merge_lists = <<>>
  /\ lists_curr_postings = <<>>
  /\ did = 0
  /\ results = <<>>
  /\ total_num_results = 0
  /\ scored = <<>>
  /\ num_results = -1
  /\ locals = <<>>

(* ProcessQuery, lines 262-291: open the lists and enter the list routine *)
ProcessQuery ==
  /\ pc = "ProcessQuery"
  /\ \E ls \in {OpenLastLayers(index, index_layered_, index_overlapping_layers_,
                               index_num_layers_, query_term_data)} :
       IF query_algorithm_ = "kDaatAnd"
       THEN /\ lists' = Sort("ListCompare", ls, 0, Len(ls))
            /\ lists_curr_postings' = <<>>
            /\ pc' = "IntersectLists"
       ELSE \E st \in {MergeListsInit(ls)} :
              /\ lists' = st.lists
              /\ lists_curr_postings' = st.lists_curr_postings
              /\ pc' = "MergeLists"
  /\ did' = 0
  /\ results' = <<>>
  /\ total_num_results' = 0
  /\ scored' = <<>>
  /\ UNCHANGED <<config, merge_lists, num_results, locals>>

(* IntersectLists, lines 2070-2181: one iteration of the while loop *)
IntersectListsLoop ==
  /\ pc = "IntersectLists"
  /\ did < kNoMoreDocs
  /\ \E st \in {IntersectListsIter(index, IntersectState, max_num_results_)} :
       /\ lists' = st.lists
       /\ merge_lists' = st.merge_lists
       /\ did' = st.did
       /\ results' = st.results
       /\ total_num_results' = st.total_num_results
       /\ scored' = st.scored
  /\ UNCHANGED <<config, pc, lists_curr_postings, num_results, locals>>

(* the return of the list routine and of ProcessQuery: the final sort (lines 2184, 1400),
   *num_results = min(total_num_results, kMaxNumResults) and CloseList (lines 301-305) *)
ReturnResults ==
  /\ results' = SortResults(results, total_num_results, max_num_results_)
  /\ num_results' = Min(total_num_results, max_num_results_)
  /\ pc' = "Done"
  /\ UNCHANGED <<config, lists, merge_lists, lists_curr_postings, did, total_num_results,
                 scored, locals>>

IntersectListsReturn ==
  /\ pc = "IntersectLists"
  /\ did >= kNoMoreDocs
  /\ ReturnResults

(* MergeLists, lines 1270-1321: one iteration of the while loop *)
MergeListsLoop ==
  /\ pc = "MergeLists"
  /\ Len(lists_curr_postings) > 0
  /\ \E st \in {MergeListsIter(index, MergeState, max_num_results_)} :
       /\ lists' = st.lists
       /\ lists_curr_postings' = st.lists_curr_postings
       /\ results' = st.results
       /\ total_num_results' = st.total_num_results
       /\ scored' = st.scored
  /\ UNCHANGED <<config, pc, merge_lists, did, num_results, locals>>

MergeListsReturn ==
  /\ pc = "MergeLists"
  /\ Len(lists_curr_postings) = 0
  /\ ReturnResults

Next ==
  \/ ProcessQuery
  \/ IntersectListsLoop
  \/ IntersectListsReturn
  \/ MergeListsLoop
  \/ MergeListsReturn

Spec == Init /\ [][Next]_vars

-----------------------------------------------------------------------------
(* QueryProcessor::ProcessLayeredQuery, on an index of two overlapping     *)
(* layers (kDualLayeredOverlappingDaat, kDualLayeredOverlappingMergeDaat). *)

(* OpenListLayers, lines 330-349: for every term the cursors on its layers; a layer the
   term does not have is opened as its last layer *)
OpenListLayers(ix, layered, overlapping, num_layers, q) ==
  Tuple([i \in 1..Len(q) |->
           LET n == Len(LexiconLayers(ix, layered, overlapping, num_layers, q[i])) IN
           Tuple([j \in 1..num_layers |->
                    OpenList(ix, layered, overlapping, num_layers, q[i],
                             IF j - 1 < n THEN j - 1 ELSE n - 1)],
                 num_layers)],
        Len(q))

(* query_term_data[i]->num_layers() *)
NumLayers(ix, layered, overlapping, num_layers, t) ==
  Len(LexiconLayers(ix, layered, overlapping, num_layers, t))

(* OpenListLayers, lines 333-336: the first term that has a single layer, or -1 *)
SingleLayerListIdx(ix, layered, overlapping, num_layers, q) ==
  LET S == {i \in 1..Len(q) : NumLayers(ix, layered, overlapping, num_layers, q[i]) = 1} IN
  IF S = {} THEN -1 ELSE (CHOOSE i \in S : \A j \in S : i <= j) - 1

(* lines 977-990: the lists of intersection i: the first layer of term i and the second
   layers of the others, shortest first *)
IntersectionLists(list_data_pointers, i) ==
  LET curr == [j \in 1..Len(list_data_pointers) |->
                 IF j - 1 = i THEN list_data_pointers[j][1] ELSE list_data_pointers[j][2]] IN
  Sort("ListCompare", curr, 0, Len(curr))

(* lines 1124-1130: the last layers of the terms, shortest first *)
LastLayerLists(ix, layered, overlapping, num_layers, q, list_data_pointers) ==
  LET curr == [i \in 1..Len(q) |->
                 list_data_pointers[i][NumLayers(ix, layered, overlapping, num_layers, q[i])]] IN
  Sort("ListCompare", curr, 0, Len(curr))

(* a value-initialised pair<Result, pair<int, int> > *)
DefaultHeapEntry == <<<<0, 0>>, <<0, 0>>>>

RECURSIVE InitResultHeap(_, _, _, _, _)
(* lines 1016-1024: the first result of every intersection that has one, stored at the
   index of the intersection; yields <<result_heap, result_heap_size, num_intersection_results>> *)
InitResultHeap(all_results, num_intersection_results, i, result_heap, result_heap_size) ==
  IF i >= Len(all_results) THEN <<result_heap, result_heap_size, num_intersection_results>>
  ELSE IF num_intersection_results[i + 1] > 0
       THEN InitResultHeap(all_results, [num_intersection_results EXCEPT ![i + 1] = @ - 1], i + 1,
                           Put(result_heap, i, <<all_results[i + 1][1], <<i, 1>>>>),
                           result_heap_size + 1)
       ELSE InitResultHeap(all_results, num_intersection_results, i + 1, result_heap, result_heap_size)

RECURSIVE MergeResultsLoop(_, _, _, _, _, _, _)
(* lines 1028-1051: pop the highest result, store it unless its docID is that of the
   result stored last, and refill the heap from the intersection it came from;
   yields <<results, curr_result>> *)
MergeResultsLoop(all_results, num_intersection_results, result_heap, result_heap_size, res, curr_result, k) ==
  IF result_heap_size > 0 /\ curr_result < k
  THEN LET popped == PopHeap("less", result_heap, result_heap_size) IN
       LET curr_top_result == popped[result_heap_size][1] IN
       LET curr_top_result_idx == popped[result_heap_size][2] IN
       LET store == curr_result = 0 \/ res[curr_result][2] # curr_top_result[2] IN
       LET res2 == IF store THEN Put(res, curr_result, curr_top_result) ELSE res IN
       LET curr_result2 == IF store THEN curr_result + 1 ELSE curr_result IN
       LET top_intersection_index == curr_top_result_idx[1] IN
       IF num_intersection_results[top_intersection_index + 1] > 0
       THEN MergeResultsLoop(
              all_results,
              [num_intersection_results EXCEPT ![top_intersection_index + 1] = @ - 1],
              PushHeap("less",
                       Put(popped, result_heap_size - 1,
                           <<all_results[top_intersection_index + 1][curr_top_result_idx[2] + 1],
                             <<top_intersection_index, curr_top_result_idx[2] + 1>>>>),
                       result_heap_size),
              result_heap_size, res2, curr_result2, k)
       ELSE MergeResultsLoop(all_results, num_intersection_results, popped,
                             result_heap_size - 1, res2, curr_result2, k)
  ELSE <<res, curr_result>>

(* lines 1013-1053: the merge of the results of the intersections; yields <<results, curr_result>> *)
MergeResults(all_results, num_intersection_results, res, k) ==
  LET ih == InitResultHeap(all_results, num_intersection_results, 0,
                           [i \in 1..Len(all_results) |-> DefaultHeapEntry], 0) IN
  MergeResultsLoop(all_results, ih[3], MakeHeap("less", ih[1], ih[2]), ih[2], res, 0, k)

RECURSIVE ThresholdSum(_, _, _, _, _, _)
(* lines 1063-1068: remaining_document_score_upperbound, the sum of the score thresholds
   of the last layers of the terms *)
ThresholdSum(ix, layered, overlapping, num_layers, q, i) ==
  IF i >= Len(q) THEN 0
  ELSE LET layers == LexiconLayers(ix, layered, overlapping, num_layers, q[i + 1]) IN
       layers[Len(layers)].score_threshold
       + ThresholdSum(ix, layered, overlapping, num_layers, q, i + 1)

InitLayered ==
  /\ index \in IndexesUpTo(MaxLayeredPostings)
  /\ index_layered_ = TRUE
  /\ index_overlapping_layers_ = TRUE
  /\ index_num_layers_ = 2
  /\ query_algorithm_ \in {"kDualLayeredOverlappingDaat", "kDualLayeredOverlappingMergeDaat"}
  /\ max_num_results_ \in 1..MaxResults
  /\ LexiconTerms(index) # {}
  /\ query_term_data = AllTermsQuery(index)
  /\ stop_words_ = {}
  /\ words = query_term_data
  /\ pc = "ProcessLayeredQuery"
  /\ lists = <<>>
  /\ merge_lists = <<>>
  /\ lists_curr_postings = <<>>
  /\ did = 0
  /\ results = <<>>
  /\ total_num_results = 0
  /\ scored = <<>>
  /\ num_results = -1
  /\ locals = <<>>

(* lines 933-949, 1108-1120: open the layers and choose the intersections to run *)
ProcessLayeredQuery ==
  /\ pc = "ProcessLayeredQuery"
  /\ \E single_layer_list_idx \in {SingleLayerListIdx(index, index_layered_,
                                     index_overlapping_layers_, index_num_layers_, query_term_data)} :
       /\ locals' = [list_data_pointers |->
                       OpenListLayers(index, index_layered_, index_overlapping_layers_,
                                      index_num_layers_, query_term_data),
                     single_layer_list_idx |-> single_layer_list_idx,
                     i |-> 0, all_results |-> <<>>, num_intersection_results |-> <<>>,
                     run_standard_intersection |-> single_layer_list_idx # -1]
       /\ pc' = IF single_layer_list_idx # -1 THEN "StandardIntersection"
                ELSE IF query_algorithm_ = "kDualLayeredOverlappingMergeDaat"
                        /\ Len(query_term_data) > 2
                     THEN "MergeIntersection"
                     ELSE "LayerIntersections"
  /\ UNCHANGED <<config, lists, merge_lists, lists_curr_postings, did, results,
                 total_num_results, scored, num_results>>

(* lines 949-968: the first layers, merged, intersected with the second layers *)
MergeIntersection ==
  /\ pc = "MergeIntersection"
  /\ \E st \in {IntersectLists(index,
                               [i \in 1..Len(query_term_data) |-> locals.list_data_pointers[i][1]],
                               Sort("ListCompare",
                                    [i \in 1..Len(query_term_data) |-> locals.list_data_pointers[i][2]],
                                    0, Len(query_term_data)),
                               max_num_results_)} :
       /\ results' = st.results
       /\ scored' = st.scored
       /\ total_num_results' = st.total_num_results
       /\ num_results' = Min(st.total_num_results, max_num_results_)
  /\ pc' = "CheckEarlyTermination"
  /\ UNCHANGED <<config, lists, merge_lists, lists_curr_postings, did, locals>>

(* lines 977-1011: intersection i of the for loop *)
LayerIntersection ==
  /\ pc = "LayerIntersections"
  /\ locals.i < Len(query_term_data)
  /\ \E st \in {IntersectLists(index, <<>>, IntersectionLists(locals.list_data_pointers, locals.i),
                               max_num_results_)} :
       /\ locals' = [locals EXCEPT
                       !.all_results = Append(@, st.results),
                       !.num_intersection_results =
                          Append(@, Min(st.total_num_results, max_num_results_)),
                       !.i = @ + 1]
       /\ total_num_results' = total_num_results + st.total_num_results
       /\ scored' = scored \o st.scored
  /\ UNCHANGED <<config, pc, lists, merge_lists, lists_curr_postings, did, results, num_results>>

(* lines 1013-1053: the merge of the results of the intersections *)
MergeIntersectionResults ==
  /\ pc = "LayerIntersections"
  /\ locals.i >= Len(query_term_data)
  /\ \E m \in {MergeResults(locals.all_results, locals.num_intersection_results, results,
                            max_num_results_)} :
       /\ results' = m[1]
       /\ num_results' = m[2]
  /\ pc' = "CheckEarlyTermination"
  /\ UNCHANGED <<config, lists, merge_lists, lists_curr_postings, did, total_num_results,
                 scored, locals>>

(* early termination conditions that leave out the score test *)
EarlyTerminationPossibleOnCount == num_results >= max_num_results_

(* lines 1059-1070: the early termination conditions *)
EarlyTerminationPossible ==
  /\ num_results >= max_num_results_
  /\ results[Min(max_num_results_ - 1, num_results - 1) + 1][1]
       > ThresholdSum(index, index_layered_, index_overlapping_layers_, index_num_layers_,
                      query_term_data, 0)

(* lines 1059-1083, 1135-1138: early termination, the query returns the merged results *)
EarlyTerminate ==
  /\ pc = "CheckEarlyTermination"
  /\ EarlyTerminationPossible
  /\ pc' = "Done"
  /\ UNCHANGED <<config, lists, merge_lists, lists_curr_postings, did, results,
                 total_num_results, scored, num_results, locals>>

(* lines 1084-1107: no early termination, the standard intersection has to run *)
CannotEarlyTerminate ==
  /\ pc = "CheckEarlyTermination"
  /\ ~EarlyTerminationPossible
  /\ locals' = [locals EXCEPT !.run_standard_intersection = TRUE]
  /\ pc' = "StandardIntersection"
  /\ UNCHANGED <<config, lists, merge_lists, lists_curr_postings, did, results,
                 total_num_results, scored, num_results>>

(* lines 1122-1138: the query run again on the last layers, standard DAAT *)
StandardIntersection ==
  /\ pc = "StandardIntersection"
  /\ \E st \in {IntersectLists(index, <<>>,
                               LastLayerLists(index, index_layered_, index_overlapping_layers_,
                                              index_num_layers_, query_term_data,
                                              locals.list_data_pointers),
                               max_num_results_)} :
       /\ results' = st.results
       /\ scored' = st.scored
       /\ total_num_results' = st.total_num_results
       /\ num_results' = Min(st.total_num_results, max_num_results_)
  /\ pc' = "Done"
  /\ UNCHANGED <<config, lists, merge_lists, lists_curr_postings, did, locals>>

NextLayered ==
  \/ ProcessLayeredQuery
  \/ MergeIntersection
  \/ LayerIntersection
  \/ MergeIntersectionResults
  \/ EarlyTerminate
  \/ CannotEarlyTerminate
  \/ StandardIntersection

SpecLayered == InitLayered /\ [][NextLayered]_vars

-----------------------------------------------------------------------------
(* Reference definitions the properties compare the evaluators with.       *)

(* the docIDs that occur in the list of every term of q *)
DocsInAll(ix, q) == {d \in Docs : \A i \in 1..Len(q) : ix[q[i]][d] > 0}

(* the docIDs that occur in the list of at least one term of q *)
DocsInAny(ix, q) == {d \in Docs : \E i \in 1..Len(q) : ix[q[i]][d] > 0}

RECURSIVE SumOver(_, _)
SumOver(S, f) ==
  IF S = {} THEN 0 ELSE LET x == CHOOSE x \in S : TRUE IN f[x] + SumOver(S \ {x}, f)

(* the BM25 score of document d summed over the terms of q that contain it *)
FullScore(ix, q, d) ==
  LET T == {i \in 1..Len(q) : ix[q[i]][d] > 0} IN
  SumOver(T, [i \in T |-> Bm25(Idf(Len(TermDocs(ix, q[i]))), ix[q[i]][d], DocLen(d))])

Column(s, c) == [i \in 1..Len(s) |-> s[i][c]]

StrictlyAscending(s) == \A i \in 1..(Len(s) - 1) : s[i] < s[i + 1]

NonIncreasing(s) == \A i \in 1..(Len(s) - 1) : s[i] >= s[i + 1]

(* the bag of the elements of a sequence *)
BagOf(s) == [v \in Range(s) |-> Cardinality({i \in 1..Len(s) : s[i] = v})]

RECURSIVE Descending(_)
(* the elements of a sequence of integers, highest first *)
Descending(s) ==
  IF s = <<>> THEN <<>>
  ELSE LET i == CHOOSE i \in 1..Len(s) : \A j \in 1..Len(s) : s[i] >= s[j] IN
       <<s[i]>> \o Descending(SubSeq(s, 1, i - 1) \o SubSeq(s, i + 1, Len(s)))

(* the m highest of the scores of a sequence of <<score, docID>>, highest first *)
TopScores(s, m) == SubSeq(Descending(Column(s, 1)), 1, Min(m, Len(s)))

-----------------------------------------------------------------------------
(* C1: DAAT-AND.  IntersectLists without merge lists scores only docIDs that
   occur in every list, in strictly ascending docID order (so each once); when
   it returns it has scored exactly the docIDs of the intersection and its
   return value is the size of the intersection. *)
C1_IntersectScoresIntersection ==
  (query_algorithm_ = "kDaatAnd" /\ pc \in {"IntersectLists", "Done"}) =>
    /\ merge_lists = <<>>
    /\ StrictlyAscending(Column(scored, 2))
    /\ Range(Column(scored, 2)) \subseteq DocsInAll(index, query_term_data)
    /\ total_num_results = Len(scored)
    /\ pc = "Done" =>
         /\ Column(scored, 2) = SetToSeq(DocsInAll(index, query_term_data))
         /\ total_num_results = Cardinality(DocsInAll(index, query_term_data))

(* IntersectLists has returned for a query of two terms or more whose lists
   share a docID and do not share another one *)
C1_Witness ==
  /\ query_algorithm_ = "kDaatAnd"
  /\ pc = "Done"
  /\ Len(query_term_data) >= 2
  /\ total_num_results >= 1
  /\ DocsInAny(index, query_term_data) # DocsInAll(index, query_term_data)

(* IntersectLists has returned 0 for lists that share no docID *)
C1_WitnessEmpty ==
  /\ query_algorithm_ = "kDaatAnd"
  /\ pc = "Done"
  /\ Len(query_term_data) >= 2
  /\ total_num_results = 0

-----------------------------------------------------------------------------
(* C2: DAAT-OR.  MergeLists scores docIDs in strictly ascending order (so
   each once), each with the sum of the contributions of exactly the lists
   that contain it; the cursor array holds exactly the cursors that are not
   exhausted, each with the docID under it; when MergeLists returns it has
   scored every docID of the union and its return value is the size of the
   union. *)
C2_MergeScoresUnion ==
  (query_algorithm_ = "kDaatOr" /\ pc \in {"MergeLists", "Done"}) =>
    /\ StrictlyAscending(Column(scored, 2))
    /\ \A i \in 1..Len(scored) :
         /\ scored[i][2] \in DocsInAny(index, query_term_data)
         /\ scored[i][1] = FullScore(index, query_term_data, scored[i][2])
    /\ total_num_results = Len(scored)
    /\ \A i \in 1..Len(lists_curr_postings) :
         /\ lists_curr_postings[i][1] < kNoMoreDocs
         /\ lists_curr_postings[i][1] = CurrDocId(lists[lists_curr_postings[i][2] + 1])
    /\ \A j \in 1..Len(lists) :
         Cardinality({i \in 1..Len(lists_curr_postings) : lists_curr_postings[i][2] = j - 1})
           = IF CurrDocId(lists[j]) = kNoMoreDocs THEN 0 ELSE 1
    /\ pc = "Done" =>
         /\ Column(scored, 2) = SetToSeq(DocsInAny(index, query_term_data))
         /\ total_num_results = Cardinality(DocsInAny(index, query_term_data))
         /\ lists_curr_postings = <<>>

(* MergeLists has returned for a query of two terms or more, after scoring a
   docID that two lists hold and a docID that one list holds *)
C2_Witness ==
  /\ query_algorithm_ = "kDaatOr"
  /\ pc = "Done"
  /\ Len(query_term_data) >= 2
  /\ DocsInAll(index, query_term_data) # {}
  /\ DocsInAny(index, query_term_data) # DocsInAll(index, query_term_data)
  /\ total_num_results >= 2

-----------------------------------------------------------------------------
(* C4: top-k maintenance.  When IntersectLists has returned after scoring n
   documents, the first min(k, n) results hold the min(k, n) highest of the n
   scores, highest first, each with a docID that was scored with that score,
   and ProcessQuery reports *num_results = min(n, k). *)
C4_TopKResults ==
  (query_algorithm_ = "kDaatAnd" /\ pc = "Done") =>
    /\ num_results = Min(Len(scored), max_num_results_)
    /\ Len(results) = num_results
    /\ Column(results, 1) = TopScores(scored, max_num_results_)
    /\ NonIncreasing(Column(results, 1))
    /\ Range(results) \subseteq Range(scored)
    /\ \A i, j \in 1..Len(results) : i # j => results[i][2] # results[j][2]

(* IntersectLists has returned after scoring more than k documents, one of
   which replaced the lowest result of the full heap *)
C4_Witness ==
  /\ query_algorithm_ = "kDaatAnd"
  /\ pc = "Done"
  /\ Len(scored) > max_num_results_
  /\ \E i \in (max_num_results_ + 1)..Len(scored) :
       \E j \in 1..max_num_results_ : scored[i][1] > scored[j][1]

-----------------------------------------------------------------------------
(* C8: score agreement.  When DAAT-AND returns, its results are those DAAT-AND
   returns for the same query and k on the other version of the index (the
   index that is not layered for a layered index, the layered index for one
   that is not): the same docIDs with the same scores. *)
C8_ScoreAgreement ==
  (query_algorithm_ = "kDaatAnd" /\ pc = "Done") =>
    LET other == OpenLastLayers(index, ~index_layered_, ~index_layered_,
                                IF index_layered_ THEN 1 ELSE 2, query_term_data) IN
    LET st == IntersectLists(index, <<>>, Sort("ListCompare", other, 0, Len(other)),
                             max_num_results_) IN
    /\ Range(results) = Range(st.results)
    /\ num_results = Min(st.total_num_results, max_num_results_)

(* DAAT-AND has returned results on a layered index, for a query with a term
   whose list has two layers of different sizes *)
C8_Witness ==
  /\ query_algorithm_ = "kDaatAnd"
  /\ pc = "Done"
  /\ index_layered_
  /\ num_results >= 1
  /\ \E i \in 1..Len(query_term_data) :
       LET layers == LexiconLayers(index, TRUE, TRUE, index_num_layers_, query_term_data[i]) IN
       Len(layers) = 2 /\ layers[1].num_docs < layers[2].num_docs

-----------------------------------------------------------------------------
(* the results DAAT-AND returns on the last layers of the terms of the query *)
StandardResults ==
  IntersectLists(index, <<>>,
                 LastLayerLists(index, index_layered_, index_overlapping_layers_,
                                index_num_layers_, query_term_data,
                                OpenListLayers(index, index_layered_, index_overlapping_layers_,
                                               index_num_layers_, query_term_data)),
                 max_num_results_).results

(* ProcessLayeredQuery has returned from its early-termination branch *)
EarlyTerminated ==
  /\ query_algorithm_ \in {"kDualLayeredOverlappingDaat", "kDualLayeredOverlappingMergeDaat"}
  /\ pc = "Done"
  /\ ~locals.run_standard_intersection

(* no two documents that hold every term of the query have the same score, so
   that the top-k docID set of DAAT-AND is unique *)
DistinctScores ==
  \A d1, d2 \in DocsInAll(index, query_term_data) :
    d1 # d2 => FullScore(index, query_term_data, d1) # FullScore(index, query_term_data, d2)

(* C5: layered DAAT rank-safety.  When ProcessLayeredQuery returns from its
   early-termination branch (every term has two layers, k results, the k-th
   score above the sum of the last-layer thresholds), the set of docIDs of its
   results is the top-k docID set of DAAT-AND on the last layers.  Stated for
   the collections on which that set is unique. *)
C5_LayeredDocIdSet ==
  (EarlyTerminated /\ DistinctScores) =>
    Range(Column(SubSeq(results, 1, num_results), 2)) = Range(Column(StandardResults, 2))

(* the early-termination branch has been taken for a query of three terms *)
C5_Witness ==
  EarlyTerminated /\ DistinctScores /\ Len(query_term_data) = 3

-----------------------------------------------------------------------------
(* One list cursor under a sequence of NextGEQ calls with strictly          *)
(* increasing targets.  The layer holds docIDs of 0..MaxListDocId, enough   *)
(* for several chunks and more than one block.                              *)

MaxListDocId == 8

(* the layers of docIDs in 0..MaxListDocId *)
ListLayers ==
  {[docs |-> SetToSeq(S), num_docs |-> Cardinality(S), score_threshold |-> 0]
     : S \in (SUBSET (0..MaxListDocId)) \ {{}}}

InitNextGEQ ==
  /\ index = [t \in Terms |-> [d \in Docs |-> 0]]
  /\ index_layered_ = FALSE
  /\ index_overlapping_layers_ = FALSE
  /\ index_num_layers_ = 1
  /\ query_algorithm_ = "kDaatAnd"
  /\ max_num_results_ = 1
  /\ query_term_data = <<1>>
  /\ stop_words_ = {}
  /\ words = query_term_data
  /\ pc = "NextGEQ"
  /\ \E layer \in ListLayers : lists = <<ListData(1, 0, layer, layer.num_docs)>>
  /\ merge_lists = <<>>
  /\ lists_curr_postings = <<>>
  /\ did = 0
  /\ results = <<>>
  /\ total_num_results = 0
  /\ scored = <<>>
  /\ num_results = -1
  /\ locals = [calls |-> 0, target |-> -1, returned |-> -1, prev_returned |-> -1,
               before |-> lists[1]]

(* one call NextGEQ(lists[0], target) with a target above the previous one *)
NextGEQCall ==
  /\ pc = "NextGEQ"
  /\ \E target \in (locals.target + 1)..(MaxListDocId + 1) :
       \E l \in {NextGEQ(lists[1], target)} :
         /\ lists' = <<l>>
         /\ locals' = [calls |-> locals.calls + 1, target |-> target, returned |-> CurrDocId(l),
                       prev_returned |-> locals.returned, before |-> lists[1]]
  /\ UNCHANGED <<config, pc, merge_lists, lists_curr_postings, did, results,
                 total_num_results, scored, num_results>>

NextNextGEQ == NextGEQCall

SpecNextGEQ == InitNextGEQ /\ [][NextNextGEQ]_vars

(* C3: NextGEQ under strictly increasing targets.  After every call the
   returned docID is the smallest docID of the layer that is >= the target, or
   the sentinel when there is none; it is >= the target; it is not below the
   docID the previous call returned; and the cursor has not moved backwards:
   its chunk has not decreased and, when it stayed in its chunk, neither has
   its document offset. *)
C3_NextGEQMonotonic ==
  (pc = "NextGEQ" /\ locals.calls > 0) =>
    LET l == lists[1] IN
    LET geq == {d \in Range(l.docs) : d >= locals.target} IN
    /\ locals.returned = (IF geq = {} THEN kNoMoreDocs
                          ELSE CHOOSE d \in geq : \A e \in geq : d <= e)
    /\ locals.returned >= locals.target
    /\ locals.returned >= locals.prev_returned
    /\ l.curr_chunk >= locals.before.curr_chunk
    /\ l.curr_chunk = locals.before.curr_chunk
         => l.curr_document_offset >= locals.before.curr_document_offset

(* a call that moved the cursor forward inside a chunk of the second block and
   returned a docID above its target *)
C3_Witness ==
  /\ pc = "NextGEQ"
  /\ locals.calls >= 2
  /\ lists[1].curr_block >= 1
  /\ lists[1].curr_chunk = locals.before.curr_chunk
  /\ lists[1].curr_document_offset > locals.before.curr_document_offset
  /\ locals.returned > locals.target
  /\ locals.returned < kNoMoreDocs

(* a call that found the list exhausted *)
C3_WitnessSentinel ==
  /\ pc = "NextGEQ"
  /\ locals.calls >= 2
  /\ locals.returned = kNoMoreDocs
  /\ locals.prev_returned < kNoMoreDocs

-----------------------------------------------------------------------------
(* QueryProcessor::KthScore, called once per score with the number of       *)
(* scores offered before (the callers pass num_top_k_scores++).             *)

MaxKthScore == 3          \* the scores offered are -1..MaxKthScore
MaxInsertions == 4     \* the number of calls

(* -numeric_limits<float>::max(), below every score *)
kLowestScore == -2147483647

(* KthScore that keeps the first kth_score scores it is given *)
KthScoreNoReplace(new_score, scores, num_scores, kth_score) ==
  IF num_scores < kth_score
  THEN LET s == PushHeap("greater", Put(scores, num_scores, new_score), num_scores + 1) IN
       <<s, IF num_scores + 1 < kth_score THEN kLowestScore ELSE s[1]>>
  ELSE <<scores, scores[1]>>

(* lines 859-879; yields <<scores, the value returned>> *)
KthScore(new_score, scores, num_scores, kth_score) ==
  IF num_scores < kth_score
  THEN LET s == PushHeap("greater", Put(scores, num_scores, new_score), num_scores + 1) IN
       <<s, IF num_scores + 1 < kth_score THEN kLowestScore ELSE s[1]>>
  ELSE IF new_score > scores[1]
       THEN LET s == PushHeap("greater",
                              Put(PopHeap("greater", scores, kth_score), kth_score - 1, new_score),
                              kth_score) IN
            <<s, s[1]>>
       ELSE <<scores, scores[1]>>

InitKth ==
  /\ index = [t \in Terms |-> [d \in Docs |-> 0]]
  /\ index_layered_ = FALSE
  /\ index_overlapping_layers_ = FALSE
  /\ index_num_layers_ = 1
  /\ query_algorithm_ = "kLayeredTaatOrEarlyTerminated"
  /\ max_num_results_ \in 1..(MaxResults + 1)
  /\ query_term_data = <<>>
  /\ stop_words_ = {}
  /\ words = query_term_data
  /\ pc = "KthScore"
  /\ lists = <<>>
  /\ merge_lists = <<>>
  /\ lists_curr_postings = <<>>
  /\ did = 0
  /\ results = <<>>
  /\ total_num_results = 0
  /\ scored = <<>>
  /\ num_results = -1
  /\ locals = [top_k_scores |-> <<>>, num_top_k_scores |-> 0, threshold |-> kLowestScore]

(* threshold = KthScore(score, top_k_scores, num_top_k_scores++, k); the scores
   offered so far are kept in scored *)
KthScoreCall ==
  /\ pc = "KthScore"
  /\ locals.num_top_k_scores < MaxInsertions
  /\ \E new_score \in (-1)..MaxKthScore :
       \E r \in {KthScore(new_score, locals.top_k_scores, locals.num_top_k_scores,
                          max_num_results_)} :
         /\ locals' = [top_k_scores |-> r[1], num_top_k_scores |-> locals.num_top_k_scores + 1,
                       threshold |-> r[2]]
         /\ scored' = Append(scored, new_score)
  /\ UNCHANGED <<config, pc, lists, merge_lists, lists_curr_postings, did, results,
                 total_num_results, num_results>>

NextKth == KthScoreCall

SpecKth == InitKth /\ [][NextKth]_vars

(* C10: KthScore.  After the m-th call of a sequence of insertions on an
   array that started empty, the value returned is the k-th largest of the m
   scores when m >= k and the lowest possible score when m < k. *)
C10_KthScore ==
  (pc = "KthScore" /\ Len(scored) > 0) =>
    locals.threshold = (IF Len(scored) >= max_num_results_
                        THEN Descending(scored)[max_num_results_]
                        ELSE kLowestScore)

(* more scores than k have been offered, the last one replaced the lowest of
   the k kept and another one was refused *)
C10_Witness ==
  /\ pc = "KthScore"
  /\ max_num_results_ >= 2
  /\ Len(scored) > max_num_results_ + 1
  /\ scored[Len(scored)] = locals.threshold
  /\ \E i \in (max_num_results_ + 1)..Len(scored) : scored[i] < locals.threshold

(* fewer scores than k have been offered *)
C10_WitnessFewer ==
  /\ pc = "KthScore"
  /\ Len(scored) > 0
  /\ Len(scored) < max_num_results_

-----------------------------------------------------------------------------
(* QueryProcessor::MergeListsWand (kWand: two_tiered false, kDualLayeredWand: *)
(* two_tiered true, kMWand true), on an index of two overlapping layers.      *)

MaxWandPostings == 5   \* postings in the whole collection, for WAND

(* lines 1431-1434: the first layer of every term *)
OpenFirstLayers(ix, layered, overlapping, num_layers, q) ==
  Tuple([i \in 1..Len(q) |-> OpenList(ix, layered, overlapping, num_layers, q[i], 0)], Len(q))

(* line 1434: list_thresholds, the score thresholds of the first layers *)
ListThresholds(ls) == [i \in 1..Len(ls) |-> ls[i].score_threshold]

(* lines 1443-1457: a query of one term is run by MergeLists, on the first layer and,
   when that gives fewer than kMaxNumResults results, again on the second layer *)
WandSingleTerm(ix, layered, overlapping, num_layers, q, k) ==
  LET first == MergeLists(ix, OpenFirstLayers(ix, layered, overlapping, num_layers, q), k) IN
  IF layered /\ NumLayers(ix, layered, overlapping, num_layers, q[1]) = 2
        /\ first.total_num_results < k
  THEN MergeLists(ix, OpenLastLayers(ix, layered, overlapping, num_layers, q), k)
  ELSE first

(* lines 1466-1483: the starting threshold; yields <<results, threshold>> *)
TopDocsThreshold(ix, ls, k, two_tiered) ==
  IF two_tiered
  THEN LET top_docs == MergeLists(ix, ls, k) IN
       <<top_docs.results, IF top_docs.total_num_results >= k THEN top_docs.results[k][1] ELSE 0>>
  ELSE <<(<<>>), 0>>

(* a pivot selection that wants the weight strictly above the threshold *)
SelectPivotStrict(postings, list_thresholds, threshold, i, pivot_weight) ==
  LET S == {n \in 1..Len(postings) :
              SumSeq([m \in 1..n |-> list_thresholds[postings[m][2] + 1]]) > threshold} IN
  IF S = {} THEN -1 ELSE (CHOOSE n \in S : \A m \in S : n <= m) - 1

RECURSIVE SelectPivot(_, _, _, _, _)
(* lines 1557-1565: the position of the first posting at which the sum of the list
   thresholds reaches the threshold, or -1 *)
SelectPivot(postings, list_thresholds, threshold, i, pivot_weight) ==
  IF i >= Len(postings) THEN -1
  ELSE LET w == pivot_weight + list_thresholds[postings[i + 1][2] + 1] IN
       IF w >= threshold THEN i
       ELSE SelectPivot(postings, list_thresholds, threshold, i + 1, w)

(* lines 1595-1602: the posting at i leaves the part of the array that remains *)
CompactArray(postings, i) == SubSeq(postings, 1, i) \o SubSeq(postings, i + 2, Len(postings))

RECURSIVE ScorePivot(_, _, _, _, _, _)
(* lines 1584-1604: score the pivot docID over the postings that hold it, advancing
   each of their lists; yields <<lists, lists_curr_postings, bm25_sum>> *)
ScorePivot(ix, ls, postings, i, pivot_doc_id, bm25_sum) ==
  IF i < Len(postings) /\ postings[i + 1][1] = pivot_doc_id
  THEN CHOOSE out \in
         {IF CurrDocId(l) = kNoMoreDocs
          THEN ScorePivot(ix, Put(ls, j, l), CompactArray(postings, i), i, pivot_doc_id, sum)
          ELSE ScorePivot(ix, Put(ls, j, l), Put(postings, i, <<CurrDocId(l), j>>), i + 1,
                          pivot_doc_id, sum)
            : <<j, sum, l>> \in
                {<<postings[i + 1][2],
                   bm25_sum + Bm25(Idf(ls[postings[i + 1][2] + 1].num_docs_complete_list),
                                   GetFreq(ix, ls[postings[i + 1][2] + 1]),
                                   DocLen(pivot_doc_id)),
                   NextGEQ(ls[postings[i + 1][2] + 1], pivot_doc_id + 1)>>}}
         : TRUE
  ELSE <<ls, postings, bm25_sum>>

(* a variant of the advance that moves the first list only (kMWand false) *)
AdvanceFirstToPivot(ls, postings, i, pivot_doc_id) == IF CurrDocId(NextGEQ(ls[postings[1][2] + 1], pivot_doc_id)) = kNoMoreDocs THEN <<Put(ls, postings[1][2], NextGEQ(ls[postings[1][2] + 1], pivot_doc_id)), CompactArray(postings, 0)>> ELSE <<Put(ls, postings[1][2], NextGEQ(ls[postings[1][2] + 1], pivot_doc_id)), Put(postings, 0, <<CurrDocId(NextGEQ(ls[postings[1][2] + 1], pivot_doc_id)), postings[1][2]>>)>>

(* a variant of the advance that leaves every list where it is *)
AdvanceToPivotStaying(ls, postings, i, pivot_doc_id) == <<ls, postings>>

RECURSIVE AdvanceToPivot(_, _, _, _)
(* lines 1632-1644 (mWAND): every list advanced to the pivot docID; yields
   <<lists, lists_curr_postings>> *)
AdvanceToPivot(ls, postings, i, pivot_doc_id) ==
  IF i >= Len(postings) THEN <<ls, postings>>
  ELSE CHOOSE out \in
         {IF CurrDocId(l) = kNoMoreDocs
          THEN AdvanceToPivot(Put(ls, j, l), CompactArray(postings, i), i, pivot_doc_id)
          ELSE AdvanceToPivot(Put(ls, j, l), Put(postings, i, <<CurrDocId(l), j>>), i + 1,
                              pivot_doc_id)
            : <<j, l>> \in {<<postings[i + 1][2], NextGEQ(ls[postings[i + 1][2] + 1], pivot_doc_id)>>}}
         : TRUE

(* line 1554: the postings that remain, sorted by docID *)
SortedPostings(postings) == Sort("ListDocIdCompare", postings, 0, Len(postings))

(* lines 1550-1579: the while loop goes on: lists remain and there is a pivot *)
WandHasPivot(postings, list_thresholds, threshold) ==
  /\ Len(postings) > 0
  /\ SelectPivot(SortedPostings(postings), list_thresholds, threshold, 0, 0) # -1

(* lines 1550-1656: one iteration of the while loop that has a pivot *)
WandIter(ix, st, k) ==
  CHOOSE out \in
    {CHOOSE o \in
       {IF pivot[1] = postings[1][1]
        THEN CHOOSE scored_state \in
               {CHOOSE r \in
                  {[st EXCEPT !.lists = sc[1], !.lists_curr_postings = sc[2], !.results = res,
                              !.threshold = IF st.total_num_results >= k /\ sc[3] > st.results[1][1]
                                            THEN res[1][1] ELSE @,
                              !.total_num_results = @ + 1,
                              !.scored = Append(@, <<sc[3], pivot[1]>>)]
                     : res \in {TopKInsert(st.results, st.total_num_results, k, sc[3], pivot[1])}}
                  : TRUE
                  : sc \in {ScorePivot(ix, st.lists, postings, 0, pivot[1], 0)}}
               : TRUE
        ELSE CHOOSE advanced_state \in
               {[st EXCEPT !.lists = ad[1], !.lists_curr_postings = ad[2]]
                  : ad \in {AdvanceToPivot(st.lists, postings, 0, pivot[1])}}
               : TRUE
          : pivot \in {postings[SelectPivot(postings, st.list_thresholds, st.threshold, 0, 0) + 1]}}
       : TRUE
       : postings \in {SortedPostings(st.lists_curr_postings)}}
    : TRUE

(* the state of MergeListsWand held in the variables *)
WandState ==
  [lists |-> lists, lists_curr_postings |-> lists_curr_postings, results |-> results,
   total_num_results |-> total_num_results, scored |-> scored,
   threshold |-> locals.threshold, list_thresholds |-> locals.list_thresholds]

InitWand ==
  /\ index \in IndexesUpTo(MaxWandPostings)
  /\ index_layered_ = TRUE
  /\ index_overlapping_layers_ = TRUE
  /\ index_num_layers_ = 2
  /\ query_algorithm_ \in {"kWand", "kDualLayeredWand"}
  /\ max_num_results_ \in 1..MaxResults
  /\ LexiconTerms(index) # {}
  /\ query_term_data = AllTermsQuery(index)
  /\ stop_words_ = {}
  /\ words = query_term_data
  /\ pc = "MergeListsWand"
  /\ lists = <<>>
  /\ merge_lists = <<>>
  /\ lists_curr_postings = <<>>
  /\ did = 0
  /\ results = <<>>
  /\ total_num_results = 0
  /\ scored = <<>>
  /\ num_results = -1
  /\ locals = <<>>

(* lines 1412-1457: a query of one term *)
MergeListsWandSingleTerm ==
  /\ pc = "MergeListsWand"
  /\ Len(query_term_data) = 1
  /\ \E st \in {WandSingleTerm(index, index_layered_, index_overlapping_layers_,
                                index_num_layers_, query_term_data, max_num_results_)} :
       /\ lists' = st.lists
       /\ lists_curr_postings' = st.lists_curr_postings
       /\ results' = st.results
       /\ total_num_results' = st.total_num_results
       /\ scored' = st.scored
  /\ locals' = [threshold |-> 0, list_thresholds |-> <<>>]
  /\ pc' = "MergeListsWandSort"
  /\ UNCHANGED <<config, merge_lists, did, num_results>>

(* lines 1412-1442, 1458-1543: the thresholds of the first layers, the starting
   threshold, the second layers opened and their first postings *)
MergeListsWandOpen ==
  /\ pc = "MergeListsWand"
  /\ Len(query_term_data) # 1
  /\ \E first \in {OpenFirstLayers(index, index_layered_, index_overlapping_layers_,
                                   index_num_layers_, query_term_data)} :
       \E td \in {TopDocsThreshold(index, first, max_num_results_,
                                   query_algorithm_ = "kDualLayeredWand")} :
         \E ip \in {InitCurrPostings(OpenLastLayers(index, index_layered_,
                                                    index_overlapping_layers_, index_num_layers_,
                                                    query_term_data), 0, <<>>)} :
           /\ lists' = ip[1]
           /\ lists_curr_postings' = ip[2]
           /\ results' = td[1]
           /\ locals' = [threshold |-> td[2], list_thresholds |-> ListThresholds(first)]
  /\ total_num_results' = 0
  /\ scored' = <<>>
  /\ pc' = "MergeListsWandLoop"
  /\ UNCHANGED <<config, merge_lists, did, num_results>>

(* lines 1550-1656: one iteration of the while loop *)
MergeListsWandLoop ==
  /\ pc = "MergeListsWandLoop"
  /\ WandHasPivot(lists_curr_postings, locals.list_thresholds, locals.threshold)
  /\ \E st \in {WandIter(index, WandState, max_num_results_)} :
       /\ lists' = st.lists
       /\ lists_curr_postings' = st.lists_curr_postings
       /\ results' = st.results
       /\ total_num_results' = st.total_num_results
       /\ scored' = st.scored
       /\ locals' = [locals EXCEPT !.threshold = st.threshold]
  /\ UNCHANGED <<config, pc, merge_lists, did, num_results>>

(* lines 1550, 1577-1579: no list remains, or no pivot: the loop is left *)
MergeListsWandBreak ==
  /\ pc = "MergeListsWandLoop"
  /\ ~WandHasPivot(lists_curr_postings, locals.list_thresholds, locals.threshold)
  /\ lists_curr_postings' = SortedPostings(lists_curr_postings)
  /\ pc' = "MergeListsWandSort"
  /\ UNCHANGED <<config, lists, merge_lists, did, results, total_num_results, scored,
                 num_results, locals>>

(* lines 1659-1666: the final sort, *num_results and CloseList *)
MergeListsWandReturn ==
  /\ pc = "MergeListsWandSort"
  /\ ReturnResults

NextWand ==
  \/ MergeListsWandSingleTerm
  \/ MergeListsWandOpen
  \/ MergeListsWandLoop
  \/ MergeListsWandBreak
  \/ MergeListsWandReturn

SpecWand == InitWand /\ [][NextWand]_vars

(* the results exhaustive DAAT-OR returns on the full lists of the terms of the query *)
ExhaustiveOrResults ==
  MergeLists(index, OpenLastLayers(index, index_layered_, index_overlapping_layers_,
                                   index_num_layers_, query_term_data),
             max_num_results_)

(* MergeListsWand has returned for a query of several terms *)
WandReturned ==
  /\ query_algorithm_ \in {"kWand", "kDualLayeredWand"}
  /\ pc = "Done"
  /\ Len(query_term_data) >= 2

(* C6: WAND rank-safety.  When MergeListsWand (one tier or two tiers) returns
   for a query of several terms, with the score threshold of the first layer
   of every term as its upper bound, the scores of its results are the top-k
   scores exhaustive DAAT-OR returns on the full lists of the same terms. *)
C6_WandTopKScores ==
  WandReturned =>
    \E or \in {ExhaustiveOrResults} :
      Column(SubSeq(results, 1, num_results), 1)
        = Column(SubSeq(or.results, 1, Min(or.total_num_results, max_num_results_)), 1)

(* WAND returned although it left a docID of the union unscored *)
C6_Witness ==
  /\ WandReturned
  /\ total_num_results < Cardinality(DocsInAny(index, query_term_data))
  /\ num_results = max_num_results_

-----------------------------------------------------------------------------
(* QueryProcessor::ProcessLayeredTaatPrunedEarlyTerminatedQuery, on an index *)
(* of two layers that do not overlap.                                        *)

MaxTaatPostings == 5   \* postings in the whole collection, for layered TAAT

(* list->term_num(): the position in the query of the term of the list *)
TermNum(q, l) == (CHOOSE i \in 1..Len(q) : q[i] = l.term) - 1

RECURSIVE TermLayers(_, _, _)
(* lines 396-408: list_data_pointers[i][0 .. num_layers() - 1] *)
TermLayers(layers, n, j) ==
  IF j >= n THEN <<>> ELSE <<layers[j + 1]>> \o TermLayers(layers, n, j + 1)

RECURSIVE AllLayers(_, _, _, _, _, _, _)
(* lines 396-408: the layers of all the terms, term by term *)
AllLayers(ix, layered, overlapping, num_layers, q, list_data_pointers, i) ==
  IF i >= Len(q) THEN <<>>
  ELSE TermLayers(list_data_pointers[i + 1],
                  NumLayers(ix, layered, overlapping, num_layers, q[i + 1]), 0)
       \o AllLayers(ix, layered, overlapping, num_layers, q, list_data_pointers, i + 1)

(* lines 391-426: max_score_sorted_list_data_pointers *)
MaxScoreSortedLayers(ix, layered, overlapping, num_layers, q) ==
  LET all == AllLayers(ix, layered, overlapping, num_layers, q,
                       OpenListLayers(ix, layered, overlapping, num_layers, q), 0) IN
  Sort("ListLayerMaxScoreCompare", all, 0, Len(all))

RECURSIVE TermUpperbound(_, _, _, _)
(* lines 480-485, 528-533: the score threshold of the first layer of term j at or after
   position from, 0 when there is none *)
TermUpperbound(q, layers, from, j) ==
  IF from >= Len(layers) THEN 0
  ELSE IF TermNum(q, layers[from + 1]) = j THEN layers[from + 1].score_threshold
       ELSE TermUpperbound(q, layers, from + 1, j)

(* lines 478-486: total_remainder before layer i *)
TotalRemainder(q, layers, i) ==
  SumSeq([j \in 1..Len(q) |-> TermUpperbound(q, layers, i, j - 1)])

(* lines 525-535: term_upperbounds after layer i *)
TermUpperbounds(q, layers, i) == [j \in 1..Len(q) |-> TermUpperbound(q, layers, i + 1, j - 1)]

(* lines 544-549, 613-619: the score an accumulator can still reach *)
AccUpperbound(acc, term_upperbounds) ==
  SumSeq([k \in 1..Len(term_upperbounds) |->
            IF (k - 1) \in acc.term_bitmap THEN 0 ELSE term_upperbounds[k]])

RECURSIVE OldAccumulators(_, _, _, _)
(* lines 709-715: the accumulators below curr_doc_id enter the top-k scores *)
OldAccumulators(st, num_sorted_accumulators, curr_doc_id, k) ==
  IF st.curr_accumulator_idx < num_sorted_accumulators
       /\ st.accumulators[st.curr_accumulator_idx + 1].doc_id < curr_doc_id
  THEN LET r == KthScore(st.accumulators[st.curr_accumulator_idx + 1].curr_score,
                         st.top_k_scores, st.num_top_k_scores, k) IN
       OldAccumulators([st EXCEPT !.top_k_scores = r[1], !.threshold = r[2],
                                  !.num_top_k_scores = @ + 1, !.curr_accumulator_idx = @ + 1],
                       num_sorted_accumulators, curr_doc_id, k)
  ELSE st

(* the top-k scores, their count and the threshold after a call of KthScore that
   yielded r *)
WithKthScore(st, r) ==
  [st EXCEPT !.top_k_scores = r[1], !.threshold = r[2], !.num_top_k_scores = @ + 1]

(* lines 717-766: the posting under the cursor of l added to its accumulator, or to a new
   one; new_score is the score handed to KthScore *)
AccumulatePosting(ix, q, s1, l, num_sorted_accumulators) ==
  LET idx == s1.curr_accumulator_idx IN
  LET partial_bm25_sum == Bm25(Idf(l.num_docs_complete_list), GetFreq(ix, l),
                               DocLen(CurrDocId(l))) IN
  IF idx < num_sorted_accumulators /\ s1.accumulators[idx + 1].doc_id = CurrDocId(l)
  THEN [s1 EXCEPT !.list = l, !.curr_doc_id = CurrDocId(l) + 1,
                  !.accumulators = Put(@, idx, [@[idx + 1] EXCEPT
                                                  !.curr_score = @ + partial_bm25_sum,
                                                  !.term_bitmap = @ \cup {TermNum(q, l)}]),
                  !.new_score = s1.accumulators[idx + 1].curr_score + partial_bm25_sum,
                  !.curr_accumulator_idx = @ + 1]
  ELSE [s1 EXCEPT !.list = l, !.curr_doc_id = CurrDocId(l) + 1,
                  !.accumulators = Append(@, [doc_id |-> CurrDocId(l),
                                              curr_score |-> partial_bm25_sum,
                                              term_bitmap |-> {TermNum(q, l)}]),
                  !.new_score = partial_bm25_sum]

(* lines 709-768: the body of the while loop for the posting under the cursor of l *)
ProcessPosting(ix, q, st, l, num_sorted_accumulators, k) ==
  CHOOSE out \in
    {WithKthScore(s2, KthScore(s2.new_score, s2.top_k_scores, s2.num_top_k_scores, k))
       : s2 \in {AccumulatePosting(ix, q, s1, l, num_sorted_accumulators)
                   : s1 \in {OldAccumulators(st, num_sorted_accumulators, CurrDocId(l), k)}}}
    : TRUE

RECURSIVE ProcessListLayerLoop(_, _, _, _, _)
(* lines 707-769: the while loop over the postings of the layer *)
ProcessListLayerLoop(ix, q, st, num_sorted_accumulators, k) ==
  CHOOSE out \in
    {IF CurrDocId(l) >= kNoMoreDocs THEN [st EXCEPT !.list = l]
     ELSE ProcessListLayerLoop(ix, q, ProcessPosting(ix, q, st, l, num_sorted_accumulators, k),
                               num_sorted_accumulators, k)
       : l \in {NextGEQ(st.list, st.curr_doc_id)}}
    : TRUE

(* lines 674-783: ProcessListLayer; yields the accumulators in docID order, the top-k
   scores and the threshold *)
ProcessListLayer(ix, q, list, accumulators, top_k_scores, k) ==
  CHOOSE out \in
    {[accumulators |-> Sort("AccumulatorDocId", st.accumulators, 0, Len(st.accumulators)),
      top_k_scores |-> st.top_k_scores, threshold |-> st.threshold]
       : st \in {ProcessListLayerLoop(ix, q,
                   [list |-> list, accumulators |-> accumulators,
                    top_k_scores |-> top_k_scores, curr_accumulator_idx |-> 0,
                    curr_doc_id |-> 0, num_top_k_scores |-> 0, threshold |-> 0,
                    new_score |-> 0],
                   Len(accumulators), k)}}
    : TRUE

(* lines 816-828: the accumulator at accumulator_offset takes the score of its posting in
   l, if l has one; new_score is the score handed to KthScore *)
AccumulateLookup(ix, q, st, l) ==
  LET old == st.accumulators[st.accumulator_offset + 1] IN
  IF CurrDocId(l) = old.doc_id
  THEN LET partial_bm25_sum == Bm25(Idf(l.num_docs_complete_list), GetFreq(ix, l),
                                    DocLen(old.doc_id)) IN
       [st EXCEPT !.list = l,
                  !.accumulators = Put(@, st.accumulator_offset,
                                       [old EXCEPT !.curr_score = @ + partial_bm25_sum,
                                                   !.term_bitmap = @ \cup {TermNum(q, l)}]),
                  !.new_score = old.curr_score + partial_bm25_sum]
  ELSE [st EXCEPT !.list = l, !.new_score = old.curr_score]

(* lines 808-850: the body of the while loop for the accumulator at accumulator_offset *)
ProcessAccumulator(ix, q, st, k) ==
  CHOOSE out \in
    {[WithKthScore(s2, KthScore(s2.new_score, s2.top_k_scores, s2.num_top_k_scores, k))
        EXCEPT !.accumulator_offset = @ + 1]
       : s2 \in {AccumulateLookup(ix, q, st, l)
                   : l \in {NextGEQ(st.list, st.accumulators[st.accumulator_offset + 1].doc_id)}}}
    : TRUE

RECURSIVE ProcessListLayerAndLoop(_, _, _, _)
(* lines 808-851: the while loop over the accumulators *)
ProcessListLayerAndLoop(ix, q, st, k) ==
  IF st.accumulator_offset >= Len(st.accumulators) THEN st
  ELSE ProcessListLayerAndLoop(ix, q, ProcessAccumulator(ix, q, st, k), k)

(* ProcessListLayerAnd that inserts an accumulator for a posting it finds none for *)
ProcessListLayerAndInserting(ix, q, list, accumulators, top_k_scores, k) == ProcessListLayer(ix, q, list, accumulators, top_k_scores, k)

(* lines 785-854: ProcessListLayerAnd *)
ProcessListLayerAnd(ix, q, list, accumulators, top_k_scores, k) ==
  CHOOSE out \in
    {[accumulators |-> st.accumulators, top_k_scores |-> st.top_k_scores,
      threshold |-> st.threshold]
       : st \in {ProcessListLayerAndLoop(ix, q,
                   [list |-> list, accumulators |-> accumulators,
                    top_k_scores |-> top_k_scores, accumulator_offset |-> 0,
                    num_top_k_scores |-> 0, threshold |-> 0, new_score |-> 0], k)}}
    : TRUE

(* line 552: some accumulator below the threshold can still get above it *)
ConditionOneFails(accumulators, term_upperbounds, threshold) ==
  \E j \in 1..Len(accumulators) :
    /\ accumulators[j].curr_score < threshold
    /\ accumulators[j].curr_score + AccUpperbound(accumulators[j], term_upperbounds) > threshold

RECURSIVE PruneAccumulators(_, _, _, _)
(* lines 542-571: the accumulators that cannot reach the threshold are removed *)
PruneAccumulators(accumulators, term_upperbounds, threshold, j) ==
  IF j >= Len(accumulators) THEN <<>>
  ELSE (IF accumulators[j + 1].curr_score
             + AccUpperbound(accumulators[j + 1], term_upperbounds) < threshold
        THEN <<>> ELSE <<accumulators[j + 1]>>)
       \o PruneAccumulators(accumulators, term_upperbounds, threshold, j + 1)

(* lines 610-635: some accumulator can still reach or pass the next one in score order *)
ConditionTwoFails(accumulators, term_upperbounds) ==
  \E j \in 1..(Len(accumulators) - 1) :
    \E acc_upperbound \in {AccUpperbound(accumulators[j], term_upperbounds)} :
      \/ accumulators[j].curr_score = accumulators[j + 1].curr_score /\ acc_upperbound > 0
      \/ acc_upperbound > accumulators[j + 1].curr_score - accumulators[j].curr_score

(* CheckTermination that leaves the accumulators as the early termination check
   left them *)
CheckTerminationUnsorted(st, pl, term_upperbounds, mode, early_termination_condition_one, by_score) ==
  [st EXCEPT !.accumulators = by_score, !.top_k_scores = pl.top_k_scores,
             !.threshold = pl.threshold, !.curr_processing_mode = mode,
             !.stopped = early_termination_condition_one /\ ~ConditionTwoFails(by_score, term_upperbounds),
             !.i = IF early_termination_condition_one /\ ~ConditionTwoFails(by_score, term_upperbounds)
                   THEN @ ELSE @ + 1]

(* lines 588-650: the second early termination condition, checked on the accumulators
   in ascending score order when the first one holds; the query stops when both hold,
   and goes on to the next layer with the accumulators in docID order when not *)
CheckTermination(st, pl, term_upperbounds, mode, early_termination_condition_one, by_score) ==
  IF early_termination_condition_one /\ ~ConditionTwoFails(by_score, term_upperbounds)
  THEN [st EXCEPT !.accumulators = by_score, !.top_k_scores = pl.top_k_scores,
                  !.threshold = pl.threshold, !.curr_processing_mode = mode,
                  !.stopped = TRUE]
  ELSE [st EXCEPT !.accumulators = Sort("AccumulatorDocId", by_score, 0, Len(by_score)),
                  !.top_k_scores = pl.top_k_scores, !.threshold = pl.threshold,
                  !.curr_processing_mode = mode, !.i = @ + 1]

(* lines 537-603: the accumulators pruned, and sorted by ascending score when the first
   early termination condition holds *)
PruneAndCheck(st, pl, term_upperbounds, mode, early_termination_condition_one, pruned) ==
  CHOOSE out \in
    {CheckTermination(st, pl, term_upperbounds, mode, early_termination_condition_one, by_score)
       : by_score \in {IF early_termination_condition_one
                       THEN Sort("AccumulatorScoreAscendingCompare", pruned, 0, Len(pruned))
                       ELSE pruned}}
    : TRUE

(* lines 525-571: the term upper bounds after the layer, the first early termination
   condition and the pruning of the accumulators pl holds *)
AfterLayer(q, st, pl, mode) ==
  CHOOSE out \in
    {PruneAndCheck(st, pl, term_upperbounds, mode,
                   ~ConditionOneFails(pl.accumulators, term_upperbounds, pl.threshold),
                   PruneAccumulators(pl.accumulators, term_upperbounds, pl.threshold, 0))
       : term_upperbounds \in {TermUpperbounds(q, st.layers, st.i)}}
    : TRUE

(* lines 460-650: the body of the for loop for layer i, in the processing mode given *)
TaatLayer(ix, q, st, k, mode) ==
  CHOOSE out \in
    {AfterLayer(q, st, pl, mode)
       : pl \in {IF mode = "kOr"
                 THEN ProcessListLayer(ix, q, st.layers[st.i + 1], st.accumulators,
                                       st.top_k_scores, k)
                 ELSE ProcessListLayerAnd(ix, q, st.layers[st.i + 1], st.accumulators,
                                          st.top_k_scores, k)}}
    : TRUE

(* lines 489-493: the processing mode of layer i *)
ProcessingMode(q, st) ==
  IF TotalRemainder(q, st.layers, st.i) < st.threshold THEN "kAnd" ELSE st.curr_processing_mode

RECURSIVE AccumulatorResults(_, _, _)
(* lines 654-657: the first accumulators copied to the results *)
AccumulatorResults(accumulators, res, i) ==
  IF i >= Len(accumulators) THEN res
  ELSE AccumulatorResults(accumulators,
                          Put(res, i, <<accumulators[i + 1].curr_score, accumulators[i + 1].doc_id>>),
                          i + 1)

(* the state of the query held in the variables *)
TaatState == locals

InitTaat ==
  /\ index \in IndexesUpTo(MaxTaatPostings)
  /\ index_layered_ = TRUE
  /\ index_overlapping_layers_ = FALSE
  /\ index_num_layers_ = 2
  /\ query_algorithm_ = "kLayeredTaatOrEarlyTerminated"
  /\ max_num_results_ \in 1..MaxResults
  /\ LexiconTerms(index) # {}
  /\ query_term_data = AllTermsQuery(index)
  /\ stop_words_ = {}
  /\ words = query_term_data
  /\ pc = "ProcessLayeredTaatPrunedEarlyTerminatedQuery"
  /\ lists = <<>>
  /\ merge_lists = <<>>
  /\ lists_curr_postings = <<>>
  /\ did = 0
  /\ results = <<>>
  /\ total_num_results = 0
  /\ scored = <<>>
  /\ num_results = -1
  /\ locals = <<>>

(* lines 375-458: the layers opened and sorted by their score thresholds, no
   accumulator, the threshold at the lowest score *)
ProcessLayeredTaatOpen ==
  /\ pc = "ProcessLayeredTaatPrunedEarlyTerminatedQuery"
  /\ \E layers \in {MaxScoreSortedLayers(index, index_layered_, index_overlapping_layers_,
                                         index_num_layers_, query_term_data)} :
       /\ locals' = [layers |-> layers, i |-> 0, accumulators |-> <<>>, top_k_scores |-> <<>>,
                     threshold |-> kLowestScore, curr_processing_mode |-> "kOr",
                     stopped |-> FALSE]
       /\ total_num_results' = SumSeq([j \in 1..Len(layers) |-> layers[j].num_docs])
  /\ pc' = "ProcessLayers"
  /\ UNCHANGED <<config, lists, merge_lists, lists_curr_postings, did, results, scored,
                 num_results>>

(* lines 460-650: one layer processed in OR mode *)
ProcessLayerOr ==
  /\ pc = "ProcessLayers"
  /\ ~locals.stopped
  /\ locals.i < Len(locals.layers)
  /\ ProcessingMode(query_term_data, locals) = "kOr"
  /\ \E st \in {TaatLayer(index, query_term_data, TaatState, max_num_results_, "kOr")} :
       locals' = st
  /\ UNCHANGED <<config, pc, lists, merge_lists, lists_curr_postings, did, results,
                 total_num_results, scored, num_results>>

(* lines 460-650: one layer processed in AND mode *)
ProcessLayerAnd ==
  /\ pc = "ProcessLayers"
  /\ ~locals.stopped
  /\ locals.i < Len(locals.layers)
  /\ ProcessingMode(query_term_data, locals) = "kAnd"
  /\ \E st \in {TaatLayer(index, query_term_data, TaatState, max_num_results_, "kAnd")} :
       locals' = st
  /\ UNCHANGED <<config, pc, lists, merge_lists, lists_curr_postings, did, results,
                 total_num_results, scored, num_results>>

(* lines 652-669: the accumulators sorted by score, the first ones returned *)
ProcessLayeredTaatReturn ==
  /\ pc = "ProcessLayers"
  /\ locals.stopped \/ locals.i >= Len(locals.layers)
  /\ \E accumulators \in {Sort("AccumulatorScoreDescendingCompare", locals.accumulators, 0,
                                 Len(locals.accumulators))} :
       /\ locals' = [locals EXCEPT !.accumulators = accumulators]
       /\ results' = AccumulatorResults(SubSeq(accumulators, 1,
                                               Min(max_num_results_, Len(accumulators))),
                                        results, 0)
       /\ num_results' = Min(Len(accumulators), max_num_results_)
  /\ pc' = "Done"
  /\ UNCHANGED <<config, lists, merge_lists, lists_curr_postings, did, total_num_results,
                 scored>>

NextTaat ==
  \/ ProcessLayeredTaatOpen
  \/ ProcessLayerOr
  \/ ProcessLayerAnd
  \/ ProcessLayeredTaatReturn

SpecTaat == InitTaat /\ [][NextTaat]_vars

(* the results of exhaustive OR evaluation: MergeLists on the complete lists of the terms *)
ExhaustiveOrRanking ==
  MergeLists(index, OpenLastLayers(index, FALSE, FALSE, 1, query_term_data), max_num_results_)

(* no two documents that hold a term of the query have the same score, so that
   the order of exhaustive OR evaluation is unique *)
DistinctUnionScores ==
  \A d1, d2 \in DocsInAny(index, query_term_data) :
    d1 # d2 => FullScore(index, query_term_data, d1) # FullScore(index, query_term_data, d2)

(* ProcessLayeredTaatPrunedEarlyTerminatedQuery has returned *)
TaatReturned ==
  /\ query_algorithm_ = "kLayeredTaatOrEarlyTerminated"
  /\ pc = "Done"

(* C7: layered TAAT is rank safe.  When the query returns, after an early
   termination or after the last layer, the docIDs of its results, in order,
   are those of the top-k of exhaustive OR evaluation over the complete lists
   of the query terms.  Stated for the collections on which that order is
   unique. *)
C7_TaatRankSafe ==
  (TaatReturned /\ DistinctUnionScores) =>
    \E or \in {ExhaustiveOrRanking} :
      Column(SubSeq(results, 1, num_results), 2)
        = Column(SubSeq(or.results, 1, Min(or.total_num_results, max_num_results_)), 2)

(* the query stopped before its last layer *)
C7_Witness ==
  /\ TaatReturned
  /\ DistinctUnionScores
  /\ locals.stopped
  /\ locals.i < Len(locals.layers) - 1

-----------------------------------------------------------------------------
(* QueryProcessor::ExecuteQuery: the words of the query line, the terms    *)
(* found in the lexicon, and the evaluator of the query algorithm.  A word *)
(* is a term, the order of the words is that of the terms, and the lexicon *)
(* holds the terms with a posting.                                         *)

MaxExecPostings == 3   \* postings in the whole collection, for ExecuteQuery
MaxQueryWords == 2     \* words in the query line

QueryLines == UNION {[1..n -> Terms] : n \in 0..MaxQueryWords}

(* the algorithms ExecuteQuery is run with *)
ExecAlgorithms ==
  {"kDaatAnd", "kDaatOr", "kDualLayeredOverlappingDaat", "kLayeredTaatOrEarlyTerminated",
   "kWand", "kDualLayeredWand"}

(* LoadIndexProperties, lines 2562-2608: the algorithm is appropriate for the index type *)
AppropriateAlgorithm(algorithm, layered, overlapping, num_layers) ==
  CASE algorithm \in {"kDaatAnd", "kDaatOr", "kWand", "kDualLayeredWand"} ->
         ~(layered /\ ~overlapping)
    [] algorithm \in {"kDualLayeredOverlappingDaat", "kDualLayeredOverlappingMergeDaat"} ->
         ~(~layered \/ ~overlapping \/ num_layers # 2)
    [] algorithm = "kLayeredTaatOrEarlyTerminated" ->
         ~(~layered \/ overlapping)

RECURSIVE StopListed(_, _, _)
(* lines 2335-2348: the words of the line that are not in the stop list *)
StopListed(query_line, stop_words, i) ==
  IF i >= Len(query_line) THEN <<>>
  ELSE (IF stop_words # {} /\ query_line[i + 1] \in stop_words THEN <<>>
        ELSE <<query_line[i + 1]>>)
       \o StopListed(query_line, stop_words, i + 1)

RECURSIVE Unique(_, _)
(* std::unique and erase, line 2358: of every run of equal words the first one is kept *)
Unique(s, i) ==
  IF i >= Len(s) THEN <<>>
  ELSE (IF i > 0 /\ s[i] = s[i + 1] THEN <<>> ELSE <<s[i + 1]>>) \o Unique(s, i + 1)

(* lines 2335-2358: words, after the sort and the removal of duplicates *)
QueryWords(query_line, stop_words) ==
  CHOOSE out \in {Unique(Sort("string", w, 0, Len(w)), 0)
                    : w \in {StopListed(query_line, stop_words, 0)}} : TRUE

(* lines 2365-2386: processing_semantics *)
ProcessingSemantics(algorithm) ==
  CASE algorithm \in {"kDaatAnd", "kDualLayeredOverlappingDaat",
                      "kDualLayeredOverlappingMergeDaat"} -> "kAnd"
    [] algorithm \in {"kDaatOr", "kLayeredTaatOrEarlyTerminated", "kWand", "kDualLayeredWand",
                      "kMaxScore", "kDualLayeredMaxScore"} -> "kOr"
    [] OTHER -> "kUndefined"

RECURSIVE GetEntries(_, _, _)
(* lines 2395-2400: query_term_data, the lexicon entries of the words that have one *)
GetEntries(ix, w, i) ==
  IF i >= Len(w) THEN <<>>
  ELSE (IF w[i + 1] \in LexiconTerms(ix) THEN <<w[i + 1]>> ELSE <<>>) \o GetEntries(ix, w, i + 1)

(* a variant of lines 2402-2404 that never lowers num_query_terms *)
NumQueryTermsOfWords(processing_semantics, w, curr_query_term_num) == Len(w)

(* lines 2360, 2402-2404: num_query_terms at the test of line 2410 *)
NumQueryTerms(processing_semantics, w, curr_query_term_num) ==
  IF processing_semantics = "kOr" THEN curr_query_term_num ELSE Len(w)

(* lines 2417-2445: the evaluator the query algorithm is handed to *)
Evaluator(algorithm) ==
  CASE algorithm \in {"kDaatAnd", "kDaatOr"} -> "ProcessQuery"
    [] algorithm \in {"kDualLayeredOverlappingDaat", "kDualLayeredOverlappingMergeDaat"} ->
         "ProcessLayeredQuery"
    [] algorithm = "kLayeredTaatOrEarlyTerminated" ->
         "ProcessLayeredTaatPrunedEarlyTerminatedQuery"
    [] algorithm \in {"kWand", "kDualLayeredWand"} -> "MergeListsWand"

InitExec ==
  /\ index \in IndexesUpTo(MaxExecPostings)
  /\ query_algorithm_ \in ExecAlgorithms
  /\ index_layered_ \in BOOLEAN
  /\ index_overlapping_layers_ \in BOOLEAN
  /\ index_overlapping_layers_ => index_layered_
  /\ query_algorithm_ \in {"kDaatAnd", "kDaatOr"} => ~index_layered_
  /\ index_num_layers_ = IF index_layered_ THEN 2 ELSE 1
  /\ AppropriateAlgorithm(query_algorithm_, index_layered_, index_overlapping_layers_,
                          index_num_layers_)
  /\ query_algorithm_ \in {"kWand", "kDualLayeredWand"} =>   \* asserted at lines 1414-1416
       index_layered_ /\ index_overlapping_layers_ /\ index_num_layers_ = 2
  /\ max_num_results_ = MaxResults
  /\ stop_words_ \in {{}, {1}}
  /\ query_term_data = <<>>
  /\ words = <<>>
  /\ pc = "ExecuteQuery"
  /\ lists = <<>>
  /\ merge_lists = <<>>
  /\ lists_curr_postings = <<>>
  /\ did = 0
  /\ results = <<>>
  /\ total_num_results = 0
  /\ scored = <<>>
  /\ num_results = -1
  /\ locals = <<>>

(* lines 2323-2491: the query line read, and either the return on a line without words,
   or the evaluator entered with the terms found, or no results *)
ExecuteQuery ==
  /\ pc = "ExecuteQuery"
  /\ \E query_line \in QueryLines :
       \E w \in {QueryWords(query_line, stop_words_)} :
         \E found \in {GetEntries(index, w, 0)} :
           /\ words' = w
           /\ IF w = <<>>
              THEN /\ pc' = "Done"
                   /\ UNCHANGED <<query_term_data, num_results, total_num_results>>
              ELSE /\ query_term_data' = found
                   /\ IF Len(found) = NumQueryTerms(ProcessingSemantics(query_algorithm_), w,
                                                    Len(found))
                      THEN /\ pc' = Evaluator(query_algorithm_)
                           /\ UNCHANGED <<num_results, total_num_results>>
                      ELSE /\ pc' = "Done"
                           /\ num_results' = 0
                           /\ total_num_results' = 0
  /\ UNCHANGED <<index, index_layered_, index_overlapping_layers_, index_num_layers_,
                 query_algorithm_, max_num_results_, stop_words_, lists, merge_lists,
                 lists_curr_postings, did, results, scored, locals>>

(* the step of ExecuteQuery, or a step of the evaluator it entered *)
NextExec ==
  \/ ExecuteQuery
  \/ Next
  \/ ProcessLayeredQuery
  \/ LayerIntersection
  \/ MergeIntersectionResults
  \/ EarlyTerminate
  \/ CannotEarlyTerminate
  \/ StandardIntersection
  \/ NextWand
  \/ NextTaat

SpecExec == InitExec /\ [][NextExec]_vars

(* the words of the query that the lexicon does not hold *)
AbsentWords == {w \in Range(words) : w \notin LexiconTerms(index)}

(* C9: missing terms.  In the step of ExecuteQuery on a query line with words, under
   an algorithm of AND semantics a word that the lexicon does not hold makes the
   query end with 0 results and no evaluator entered, and under an algorithm of
   OR semantics the evaluator is entered with exactly the words the lexicon
   holds, in their order. *)
C9_MissingTerms ==
  [][(pc = "ExecuteQuery" /\ words' # <<>>) =>
       /\ (ProcessingSemantics(query_algorithm_) = "kAnd" /\ AbsentWords' # {}) =>
            (pc' = "Done" /\ num_results' = 0 /\ total_num_results' = 0 /\ lists' = <<>>)
       /\ ProcessingSemantics(query_algorithm_) = "kOr" =>
            /\ pc' = Evaluator(query_algorithm_)
            /\ query_term_data' = SelectSeq(words', LAMBDA w : w \in LexiconTerms(index))]_vars

(* a query of AND semantics with an absent word has ended with no results *)
C9_Witness ==
  /\ ProcessingSemantics(query_algorithm_) = "kAnd"
  /\ Len(words) = 2
  /\ Cardinality(AbsentWords) = 1
  /\ pc = "Done"
  /\ num_results = 0

(* a query of OR semantics with an absent word has been evaluated on the other word *)
C9_WitnessOr ==
  /\ ProcessingSemantics(query_algorithm_) = "kOr"
  /\ Len(words) = 2
  /\ Cardinality(AbsentWords) = 1
  /\ pc = "Done"
  /\ Len(query_term_data) = 1
  /\ num_results > 0

-----------------------------------------------------------------------------
(* The top-k heap of IntersectLists on its own: the documents of the       *)
(* intersection scored in ascending docID order, with every score.         *)

MaxTopK == 3          \* num_results ranges over 1..MaxTopK
MaxOffers == 4        \* the documents scored
MaxOfferScore == 3    \* the scores are 1..MaxOfferScore

InitTopK ==
  /\ index = [t \in Terms |-> [d \in Docs |-> 0]]
  /\ index_layered_ = FALSE
  /\ index_overlapping_layers_ = FALSE
  /\ index_num_layers_ = 1
  /\ query_algorithm_ = "kDaatAnd"
  /\ max_num_results_ \in 1..MaxTopK
  /\ query_term_data = <<>>
  /\ stop_words_ = {}
  /\ words = query_term_data
  /\ pc = "TopK"
  /\ lists = <<>>
  /\ merge_lists = <<>>
  /\ lists_curr_postings = <<>>
  /\ did = 0
  /\ results = <<>>
  /\ total_num_results = 0
  /\ scored = <<>>
  /\ num_results = -1
  /\ locals = <<>>

(* lines 2163-2178: the document did, with its score, offered to the heap *)
TopKScore ==
  /\ pc = "TopK"
  /\ total_num_results < MaxOffers
  /\ \E bm25_sum \in 1..MaxOfferScore :
       /\ results' = TopKInsert(results, total_num_results, max_num_results_, bm25_sum, did)
       /\ scored' = Append(scored, <<bm25_sum, did>>)
  /\ total_num_results' = total_num_results + 1
  /\ did' = did + 1
  /\ UNCHANGED <<config, pc, lists, merge_lists, lists_curr_postings, num_results, locals>>

(* lines 2183-2186, 301: the final sort and the return *)
TopKReturn ==
  /\ pc = "TopK"
  /\ ReturnResults

NextTopK ==
  \/ TopKScore
  \/ TopKReturn

SpecTopK == InitTopK /\ [][NextTopK]_vars

(* the docIDs of the results returned *)
ReturnedDocIds == Range(Column(SubSeq(results, 1, num_results), 2))

(* C11: ties in the top-k heap.  When the routine has returned, of two scored
   documents with the same score the later one is among the results only if
   the earlier one is. *)
C11_TiesKeepEarlier ==
  pc = "Done" =>
    \A i, j \in 1..Len(scored) :
      (i < j /\ scored[i][1] = scored[j][1] /\ scored[j][2] \in ReturnedDocIds)
        => scored[i][2] \in ReturnedDocIds

(* the routine has returned after scoring more documents than fit, two of them
   with the same score and only one of the two among the results *)
C11_Witness ==
  /\ pc = "Done"
  /\ Len(scored) > max_num_results_
  /\ \E i, j \in 1..Len(scored) :
       /\ i # j
       /\ scored[i][1] = scored[j][1]
       /\ scored[i][2] \in ReturnedDocIds
       /\ scored[j][2] \notin ReturnedDocIds

(* C12: output order under ties.  When the routine has returned, results with
   the same score are in ascending docID order. *)
C12_TiesAscendingDocId ==
  pc = "Done" =>
    \A i, j \in 1..num_results :
      (i < j /\ results[i][1] = results[j][1]) => results[i][2] < results[j][2]

(* the routine has returned two results or more with the same score *)
C12_Witness ==
  /\ pc = "Done"
  /\ \E i, j \in 1..num_results : i < j /\ results[i][1] = results[j][1]

(* the case the specification gives: two documents scored, with the same score,
   both returned, the earlier one first *)
C12_WitnessTwoDocs ==
  /\ pc = "Done"
  /\ Len(scored) = 2
  /\ scored[1][1] = scored[2][1]
  /\ num_results = 2
  /\ results[1][2] < results[2][2]

-----------------------------------------------------------------------------
(* LayeredIndexGenerator::CreateLayeredIndex on one inverted list, layer by *)
(* layer.  The list is of a collection of 1000 documents; its postings are  *)
(* docIDs 0..n-1.  Short lists carry every assignment of frequencies; long  *)
(* lists, which reach the minimum layer size, carry frequency 2 on a prefix *)
(* of their docIDs and frequency 1 on the rest.                             *)

MaxSmallList == 4
MaxNumLayers == 3
BigListSizes == {128, 130, 200}

(* the frequencies of the postings of the input lists, in docID order *)
InputFrequencies ==
  UNION {[1..n -> Freqs] : n \in 1..MaxSmallList}
    \cup UNION {{[j \in 1..n |-> IF j <= p THEN 2 ELSE 1] : p \in {0, 1, n \div 2, n}}
                  : n \in BigListSizes}

(* lines 192-205, 213: the buffer read from the list, each entry with the score
   DocIdScoreComparison::Bm25Score gives it *)
ReadEntries(frequencies) ==
  [j \in 1..Len(frequencies) |->
     [doc_id |-> j - 1, frequency |-> frequencies[j],
      score |-> Bm25(Log10Idf(1000, Len(frequencies)), frequencies[j], DocLen(j - 1))]]

Reverse(s) == [j \in 1..Len(s) |-> s[Len(s) + 1 - j]]

RECURSIVE ByScoreDescending(_, _)
(* the entries of buf grouped by score, highest score first; entries of one
   score keep the order they have in buf *)
ByScoreDescending(buf, scores) ==
  IF scores = {} THEN <<>>
  ELSE LET m == CHOOSE x \in scores : \A y \in scores : x >= y IN
       SelectSeq(buf, LAMBDA e : e.score = m) \o ByScoreDescending(buf, scores \ {m})

(* a variant of the sort by score that leaves the buffer in docID order *)
SortByScoreSkipped(buf, ties) == buf

(* line 229, std::sort with DocIdScoreComparison: an insertion sort up to 16
   entries; beyond, the order of entries of one score is not specified, and is
   ascending or descending docID here *)
SortByScore(buf, ties) ==
  IF Len(buf) <= 16 THEN Sort("DocIdScoreComparison", Tuple(buf, Len(buf)), 0, Len(buf))
  ELSE ByScoreDescending(IF ties = "ascending" THEN buf ELSE Reverse(buf), {e.score : e \in Range(buf)})

(* line 323, std::sort with IndexEntryDocIdComparison on positions first..last-1
   (0-based) of buf: docIDs are unique, so the outcome is the one order; postings
   is the list in docID order *)
SortByDocId(buf, postings, first, last) ==
  IF last - first <= 16 THEN Sort("IndexEntryDocIdComparison", buf, first, last)
  ELSE SubSeq(buf, 1, first)
         \o SelectSeq(postings, LAMBDA e : e.doc_id \in {buf[j].doc_id : j \in (first + 1)..last})
         \o SubSeq(buf, last + 1, Len(buf))

(* line 315 *)
LayerStartAlwaysZero(overlapping_layers_, curr_layer_start) == 0
LayerStart(overlapping_layers_, curr_layer_start) == IF overlapping_layers_ THEN 0 ELSE curr_layer_start

(* the meta file of the input index, of one list of n postings with docIDs
   0..n-1 in a collection of 1000 documents whose lengths sum to 1500; its
   posting count is the number of postings of the index or, in a meta file that
   does not agree with its index, one more or one less *)
InputMetaInfos(n) ==
  {[total_num_docs |-> 1000, total_unique_num_docs |-> n, total_document_lengths |-> 1500,
    document_posting_count |-> n, index_posting_count |-> c,
    first_doc_id |-> 0, last_doc_id |-> n - 1] : c \in {n - 1, n, n + 1}}

(* lines 107-114: the counters the constructor takes from the input meta file *)
LayeredIndexGenerator(meta_info) ==
  [total_num_docs_ |-> meta_info.total_num_docs,
   total_unique_num_docs_ |-> meta_info.total_unique_num_docs,
   total_document_lengths_ |-> meta_info.total_document_lengths,
   document_posting_count_ |-> meta_info.document_posting_count,
   index_posting_count_ |-> meta_info.index_posting_count,
   first_doc_id_in_index_ |-> meta_info.first_doc_id,
   last_doc_id_in_index_ |-> meta_info.last_doc_id]

(* IndexBuilder::posting_count: the postings added to the builder, layer by layer *)
posting_count(layers) == SumSeq([k \in 1..Len(layers) |-> Len(layers[k].entries)])

(* a variant of the meta file that takes the docID range from the builder's count *)
IndexMetafileOfBuilder(generator, builder_posting_count) ==
  [total_document_lengths |-> generator.total_document_lengths_,
   total_num_docs |-> generator.total_num_docs_,
   first_doc_id |-> 0, last_doc_id |-> builder_posting_count,
   index_posting_count |-> builder_posting_count]

(* lines 423-436: the counters of the meta file written *)
IndexMetafile(generator, builder_posting_count) ==
  [total_document_lengths |-> generator.total_document_lengths_,
   total_num_docs |-> generator.total_num_docs_,
   total_unique_num_docs |-> generator.total_unique_num_docs_,
   first_doc_id |-> generator.first_doc_id_in_index_,
   last_doc_id |-> generator.last_doc_id_in_index_,
   document_posting_count |-> generator.document_posting_count_,
   index_posting_count |-> builder_posting_count]

InitLayerify ==
  /\ index = [t \in Terms |-> [d \in Docs |-> 0]]
  /\ index_layered_ = TRUE
  /\ index_overlapping_layers_ \in BOOLEAN
  /\ index_num_layers_ \in 1..MaxNumLayers
  /\ query_algorithm_ = "kDaatAnd"
  /\ max_num_results_ = 1
  /\ query_term_data = <<>>
  /\ stop_words_ = {}
  /\ words = query_term_data
  /\ pc = "CreateLayeredIndex"
  /\ lists = <<>>
  /\ merge_lists = <<>>
  /\ lists_curr_postings = <<>>
  /\ did = 0
  /\ results = <<>>
  /\ total_num_results = 0
  /\ scored = <<>>
  /\ num_results = -1
  /\ \E frequencies \in InputFrequencies :
     \E meta_info \in InputMetaInfos(Len(frequencies)) :
       locals = [postings |-> ReadEntries(frequencies), index_entry_buffer |-> <<>>,
                 i |-> 0, num_postings_left |-> 0, list_score_threshold |-> 0, layers |-> <<>>,
                 meta_info |-> meta_info, generator |-> LayeredIndexGenerator(meta_info),
                 index_metafile |-> <<>>, logged |-> FALSE]

(* lines 192-236: the list read into the buffer and sorted by score *)
ReadList ==
  /\ pc = "CreateLayeredIndex"
  /\ \E ties \in {"ascending", "descending"} :
       locals' = [locals EXCEPT !.index_entry_buffer = SortByScore(locals.postings, ties),
                                !.num_postings_left = Len(locals.postings)]
  /\ pc' = "Layers"
  /\ UNCHANGED <<config, lists, merge_lists, lists_curr_postings, did, results,
                 total_num_results, scored, num_results>>

(* lines 238-327, one pass of the loop: layer i sized, fixed up, sorted by docID,
   dumped and finalized with its score threshold *)
WriteLayer ==
  /\ pc = "Layers"
  /\ locals.i < index_num_layers_
  /\ locals.num_postings_left > 0
  /\ \E total_num_postings \in {Len(locals.index_entry_buffer)} :
     \E n0 \in {LayerSize(locals.i, total_num_postings, locals.num_postings_left)} :
     \E last \in {locals.i = index_num_layers_ - 1 /\ locals.num_postings_left - n0 > 0} :
     \E fx \in {FixUpLayer(locals.index_entry_buffer, locals.i, index_num_layers_,
                           IF last THEN locals.num_postings_left ELSE n0,
                           IF last THEN 0 ELSE locals.num_postings_left - n0)} :
     \E curr_layer_start \in {total_num_postings - fx[2] - fx[1]} :
     \E layer_start \in {LayerStart(index_overlapping_layers_, curr_layer_start)} :
     \E score_threshold \in {locals.index_entry_buffer[curr_layer_start + 1].score} :
     \E list_score_threshold \in {IF locals.i = 0 THEN score_threshold ELSE locals.list_score_threshold} :
     \E sorted \in {SortByDocId(locals.index_entry_buffer, locals.postings,
                                layer_start, curr_layer_start + fx[1])} :
       locals' = [locals EXCEPT
                    !.index_entry_buffer = sorted,
                    !.i = @ + 1,
                    !.num_postings_left = fx[2],
                    !.list_score_threshold = list_score_threshold,
                    !.layers = Append(@,
                       [entries |-> SubSeq(sorted, layer_start + 1, curr_layer_start + fx[1]),
                        new_entries |-> SubSeq(locals.index_entry_buffer, curr_layer_start + 1,
                                               curr_layer_start + fx[1]),
                        num_postings_curr_layer |-> fx[1],
                        num_postings_before |-> locals.num_postings_left,
                        num_postings_moved_up |-> fx[1] - (IF last THEN locals.num_postings_left ELSE n0),
                        score_threshold |-> IF kOverlappingLayerThresholdIncludesAllDocs
                                            THEN list_score_threshold ELSE score_threshold])]
  /\ UNCHANGED <<config, pc, lists, merge_lists, lists_curr_postings, did, results,
                 total_num_results, scored, num_results>>

(* lines 238-241, 329: the loop over the layers ends *)
FinishList ==
  /\ pc = "Layers"
  /\ locals.i >= index_num_layers_ \/ locals.num_postings_left <= 0
  /\ pc' = "WriteMetaFile"
  /\ UNCHANGED <<config, lists, merge_lists, lists_curr_postings, did, results,
                 total_num_results, scored, num_results, locals>>

(* lines 334, 401-445: the meta file of the layered index; a posting count that
   does not add up is logged, and the file is written *)
WriteMetaFile ==
  /\ pc = "WriteMetaFile"
  /\ \E builder_posting_count \in {posting_count(locals.layers)} :
       locals' = [locals EXCEPT
                    !.logged =
                       \/ ~index_overlapping_layers_
                            /\ locals.generator.index_posting_count_ # builder_posting_count
                       \/ index_overlapping_layers_
                            /\ locals.generator.index_posting_count_ > builder_posting_count,
                    !.index_metafile = IndexMetafile(locals.generator, builder_posting_count)]
  /\ pc' = "Done"
  /\ UNCHANGED <<config, lists, merge_lists, lists_curr_postings, did, results,
                 total_num_results, scored, num_results>>

NextLayerify ==
  \/ ReadList
  \/ WriteLayer
  \/ FinishList
  \/ WriteMetaFile

SpecLayerify == InitLayerify /\ [][NextLayerify]_vars

(* the docIDs of layer k (1-based) as written *)
LayerDocIds(k) == {e.doc_id : e \in Range(locals.layers[k].entries)}

LayersWritten == IF pc \in {"Layers", "WriteMetaFile", "Done"} THEN Len(locals.layers) ELSE 0

(* C13: layer contents.  With overlapping layers every layer holds the postings
   of the layers before it together with its own; with layers that do not
   overlap, the layers are pairwise disjoint; in both, when the list is done,
   the layers together hold exactly the postings of the input list. *)
C13_LayerContents ==
  /\ \A k \in 1..LayersWritten :
       /\ Len(locals.layers[k].entries) = Cardinality(LayerDocIds(k))
       /\ Range(locals.layers[k].entries) \subseteq Range(locals.postings)
       /\ index_overlapping_layers_ =>
            Range(locals.layers[k].entries)
              = UNION {Range(locals.layers[j].new_entries) : j \in 1..k}
       /\ index_overlapping_layers_ /\ k > 1 => LayerDocIds(k - 1) \subseteq LayerDocIds(k)
       /\ ~index_overlapping_layers_ =>
            \A j \in 1..(k - 1) : LayerDocIds(j) \cap LayerDocIds(k) = {}
  /\ pc = "Done" =>
       UNION {Range(locals.layers[k].entries) : k \in 1..LayersWritten} = Range(locals.postings)

(* a list done with three layers that do not overlap *)
C13_Witness ==
  /\ pc = "Done"
  /\ ~index_overlapping_layers_
  /\ Len(locals.layers) = 3

(* a list done with three overlapping layers, each larger than the one before *)
C13_WitnessOverlapping ==
  /\ pc = "Done"
  /\ index_overlapping_layers_
  /\ Len(locals.layers) = 3
  /\ Len(locals.layers[1].entries) < Len(locals.layers[2].entries)
  /\ Len(locals.layers[2].entries) < Len(locals.layers[3].entries)

(* C14: the score thresholds given to FinalizeLayer for one list are strictly
   decreasing with the layer index. *)
C14_ThresholdsDecrease ==
  \A k \in 1..(LayersWritten - 1) :
    locals.layers[k + 1].score_threshold < locals.layers[k].score_threshold

(* two layers written, the first after the fix-up moved postings of its
   threshold's score up into it *)
C14_Witness ==
  /\ LayersWritten >= 2
  /\ locals.layers[1].num_postings_moved_up > 0
  /\ locals.layers[2].score_threshold < locals.layers[1].score_threshold

(* C15, as stated: the score threshold stored for a layer is an upper bound on
   the score of every posting the layer contains, overlapping or not. *)
C15_ThresholdBoundsLayer ==
  \A k \in 1..LayersWritten :
    \A e \in Range(locals.layers[k].entries) : e.score <= locals.layers[k].score_threshold

(* C15, amended: the score threshold stored for a layer is an upper bound on
   the score of every posting newly assigned to that layer, which is every
   posting of a layer that does not overlap and of the first layer; the
   threshold of the first layer is an upper bound on every posting of every
   layer of the list. *)
C15_ThresholdBoundsNewPostings ==
  \A k \in 1..LayersWritten :
    /\ \A e \in Range(locals.layers[k].new_entries) : e.score <= locals.layers[k].score_threshold
    /\ \A e \in Range(locals.layers[k].entries) : e.score <= locals.layers[1].score_threshold
    /\ (~index_overlapping_layers_ \/ k = 1) =>
         \A e \in Range(locals.layers[k].entries) : e.score <= locals.layers[k].score_threshold

(* an overlapping second layer written that holds a posting above its threshold *)
C15_Witness ==
  /\ index_overlapping_layers_
  /\ LayersWritten >= 2
  /\ \E e \in Range(locals.layers[2].entries) : e.score > locals.layers[2].score_threshold
  /\ \E e \in Range(locals.layers[2].new_entries) : e.score = locals.layers[2].score_threshold

(* C16, as stated: every layer of a list except its last has at least
   kLayerMinSize postings, and the last configured layer takes every posting
   that remains. *)
C16_LayerMinSize ==
  /\ pc = "Done" =>
       \A k \in 1..(Len(locals.layers) - 1) :
         locals.layers[k].num_postings_curr_layer >= kLayerMinSize
  /\ LayersWritten = index_num_layers_ => locals.num_postings_left = 0

(* C16, amended: a layer has at least kLayerMinSize postings whenever at least
   kLayerMinSize postings were left when it was sized, and at least one posting
   always; the last configured layer takes every posting that remains. *)
C16_LayerMinSizeIfLeft ==
  /\ \A k \in 1..LayersWritten :
       /\ locals.layers[k].num_postings_curr_layer > 0
       /\ locals.layers[k].num_postings_before >= kLayerMinSize
            => locals.layers[k].num_postings_curr_layer >= kLayerMinSize
  /\ LayersWritten = index_num_layers_ => locals.num_postings_left = 0

(* a list done with three layers: the first raised to kLayerMinSize postings,
   the second, with fewer than kLayerMinSize left, smaller, the third with the rest *)
C16_Witness ==
  /\ pc = "Done"
  /\ Len(locals.layers) = 3
  /\ locals.layers[1].num_postings_curr_layer = kLayerMinSize
  /\ locals.layers[2].num_postings_curr_layer < kLayerMinSize
  /\ locals.layers[3].num_postings_curr_layer
       = Len(locals.postings) - locals.layers[1].num_postings_curr_layer
           - locals.layers[2].num_postings_curr_layer

(* C19, as stated: of two consecutive layers of a list, the lowest score newly
   assigned to the first is strictly greater than the highest score newly
   assigned to the second. *)
C19_BoundariesSeparateScores ==
  \A k \in 1..(LayersWritten - 1) :
    \A e \in Range(locals.layers[k].new_entries) :
      \A f \in Range(locals.layers[k + 1].new_entries) : e.score > f.score

(* two layers written, a score of the first also found in the second *)
C19_Witness ==
  /\ LayersWritten >= 2
  /\ \E e \in Range(locals.layers[1].new_entries) :
       \E f \in Range(locals.layers[2].new_entries) : e.score = f.score

(* C17: the meta file written carries the total_num_docs,
   total_document_lengths, first_doc_id and last_doc_id of the input meta file;
   with layers that do not overlap, and an input meta file whose posting count
   is that of its index, it carries the same index_posting_count; and the run
   ends with the meta file written whether or not a mismatch was logged. *)
C17_MetaRoundTrip ==
  /\ pc = "Done" =>
       /\ locals.index_metafile # <<>>
       /\ locals.index_metafile.total_num_docs = locals.meta_info.total_num_docs
       /\ locals.index_metafile.total_document_lengths = locals.meta_info.total_document_lengths
       /\ locals.index_metafile.first_doc_id = locals.meta_info.first_doc_id
       /\ locals.index_metafile.last_doc_id = locals.meta_info.last_doc_id
       /\ (~index_overlapping_layers_
             /\ locals.meta_info.index_posting_count = Len(locals.postings))
            => /\ locals.index_metafile.index_posting_count = locals.meta_info.index_posting_count
               /\ ~locals.logged
  /\ pc = "WriteMetaFile" => ENABLED WriteMetaFile

(* a meta file written for layers that do not overlap, of a list of several
   postings in several layers, with the posting count of the input *)
C17_Witness ==
  /\ pc = "Done"
  /\ ~index_overlapping_layers_
  /\ Len(locals.layers) >= 2
  /\ locals.meta_info.last_doc_id > 0
  /\ ~locals.logged
  /\ locals.index_metafile.index_posting_count = locals.meta_info.index_posting_count

(* a meta file written after a posting-count mismatch was logged *)
C17_WitnessLogged ==
  /\ pc = "Done"
  /\ locals.logged
  /\ locals.index_metafile # <<>>
  /\ locals.index_metafile.index_posting_count # locals.meta_info.index_posting_count

(* the 1-based position of the first posting, in the given order, at which the
   sum of the upper bounds of the terms so far reaches the threshold; 0 if none *)
PivotPosition(postings, list_thresholds, threshold) ==
  LET S == {n \in 1..Len(postings) :
              SumSeq([m \in 1..n |-> list_thresholds[postings[m][2] + 1]]) >= threshold} IN
  IF S = {} THEN 0 ELSE CHOOSE n \in S : \A m \in S : n <= m

(* the step of C20 from a state of the loop whose sorted postings are postings
   and whose pivot position is p *)
WandPivotStep(postings, p) ==
  /\ \A m, n \in 1..Len(postings) : m < n => postings[m][1] <= postings[n][1]
  /\ SelectPivot(postings, locals.list_thresholds, locals.threshold, 0, 0) = p - 1
  /\ p = 0 => /\ pc' = "MergeListsWandSort"
              /\ scored' = scored
              /\ results' = results
  /\ p > 0 => pc' = pc
  /\ (p > 0 /\ postings[p][1] = postings[1][1]) =>
       /\ Len(scored') = Len(scored) + 1
       /\ scored'[Len(scored')][2] = postings[p][1]
  /\ (p > 0 /\ postings[p][1] # postings[1][1]) =>
       /\ scored' = scored
       /\ results' = results
       /\ \A n \in 1..Len(lists_curr_postings') : lists_curr_postings'[n][1] >= postings[p][1]

(* C20: the WAND pivot step.  In every iteration the pivot is the first posting,
   in ascending docID order, at which the sum of the term upper bounds reaches
   the threshold; without one the loop is left and nothing more is scored; a
   document is scored only when the pivot docID is the docID of the first
   posting, and it is the pivot docID; otherwise nothing is scored and after
   the step no remaining posting is below the pivot docID. *)
C20_WandPivotStep ==
  [][pc = "MergeListsWandLoop" =>
       \E postings \in {SortedPostings(lists_curr_postings)} :
         \E p \in {PivotPosition(postings, locals.list_thresholds, locals.threshold)} :
           WandPivotStep(postings, p)]_vars

(* an iteration with a positive threshold whose pivot is not the first posting
   and stands on a later docID: the lists before it are advanced *)
C20_Witness ==
  /\ pc = "MergeListsWandLoop"
  /\ locals.threshold > 0
  /\ \E postings \in {SortedPostings(lists_curr_postings)} :
       \E p \in {PivotPosition(postings, locals.list_thresholds, locals.threshold)} :
         p > 1 /\ postings[p][1] # postings[1][1]

(* an iteration with lists remaining and no pivot *)
C20_WitnessNoPivot ==
  /\ pc = "MergeListsWandLoop"
  /\ Len(lists_curr_postings) > 0
  /\ PivotPosition(SortedPostings(lists_curr_postings), locals.list_thresholds, locals.threshold) = 0

(* an iteration whose pivot is beyond two postings on docIDs below it *)
C20_WitnessTwoBelow ==
  /\ pc = "MergeListsWandLoop"
  /\ \E postings \in {SortedPostings(lists_curr_postings)} :
       \E p \in {PivotPosition(postings, locals.list_thresholds, locals.threshold)} :
         p > 2 /\ postings[2][1] < postings[p][1]

-----------------------------------------------------------------------------
(* QueryProcessor::MergeListsMaxScore (kMaxScore: two_tiered false,          *)
(* kScoreSkipping true) on a query of two terms, on an index of two          *)
(* overlapping layers over five documents; the first term is in every        *)
(* document, so that its second layer spans two blocks.                      *)

MaxScoreDocs == 0..4
MaxScoreTerms == 1..2

MaxScoreIndexes ==
  {ix \in [MaxScoreTerms -> [MaxScoreDocs -> {0} \cup Freqs]] :
     /\ \A d \in MaxScoreDocs : ix[1][d] > 0
     /\ Cardinality({d \in MaxScoreDocs : ix[2][d] > 0}) \in 1..3}

(* the partial BM25 score of document d in the list of term t *)
PostingScore(ix, t, d) ==
  Bm25(Log10Idf(Cardinality(MaxScoreDocs), Cardinality({e \in MaxScoreDocs : ix[t][e] > 0})),
       ix[t][d], DocLen(d))

(* the layers CreateLayeredIndex writes for term t: two overlapping layers *)
MaxScoreLayers(ix, t) ==
  CHOOSE layers \in
    {SplitLayers(buf, TRUE, 2, 0, Len(buf)) :
       buf \in {Sort("DocIdScoreComparison",
                     Tuple([j \in 1..Len(ds) |->
                              [doc_id |-> ds[j], frequency |-> ix[t][ds[j]],
                               score |-> PostingScore(ix, t, ds[j])]], Len(ds)),
                     0, Len(ds))
                  : ds \in {SetToSeq({d \in MaxScoreDocs : ix[t][d] > 0})}}} : TRUE

(* lines 1701-1704, 1758-1766: list_thresholds from the first layers, then the
   cursors on the last layers; yields <<list_thresholds, lists>> *)
MaxScoreOpenLists(ix) ==
  CHOOSE out \in
    {<<[t \in MaxScoreTerms |-> layers[t][1].score_threshold],
       [t \in MaxScoreTerms |->
          ListData(t, Len(layers[t]) - 1, layers[t][Len(layers[t])], layers[t][Len(layers[t])].num_docs)]>>
       : layers \in {Tuple([t \in MaxScoreTerms |-> MaxScoreLayers(ix, t)], 2)}} : TRUE

(* ListData::GetBlockScoreBound: the highest partial score of the postings of
   the block the cursor is in (of the last block, once the list has ended) *)
GetBlockScoreBound(ix, l) ==
  LET b == IF has_more(l) THEN l.curr_block ELSE NumBlocks(l) - 1 IN
  LET S == {PostingScore(ix, l.term, l.docs[j]) :
              j \in (b * BlockChunks * ChunkDocs + 1)..Min((b + 1) * BlockChunks * ChunkDocs, l.num_docs)} IN
  CHOOSE x \in S : \A y \in S : x >= y

RECURSIVE SuffixSums(_, _)
(* lines 1813-1816: the upper bounds summed from the end, from position i (0-based) down *)
SuffixSums(list_upperbounds, i) ==
  IF i < 0 THEN list_upperbounds
  ELSE SuffixSums(Put(list_upperbounds, i,
                      <<list_upperbounds[i + 1][1] + list_upperbounds[i + 2][1],
                        list_upperbounds[i + 1][2]>>), i - 1)

(* lines 1803-1816: the lists that have postings, by descending threshold, with the
   sums of the thresholds from each position on *)
InitListUpperbounds(list_thresholds, postings) ==
  LET remaining == SelectSeq([t \in MaxScoreTerms |-> <<list_thresholds[t], t - 1>>],
                             LAMBDA u : postings[u[2] + 1] # kNoMoreDocs) IN
  SuffixSums(Sort("greaterPair", remaining, 0, Len(remaining)), Len(remaining) - 2)

RECURSIVE MaxScoreTop(_, _, _, _, _)
(* lines 1866-1875: the position of the list with the lowest docID among the lists
   whose sum of upper bounds reaches the threshold *)
MaxScoreTop(list_upperbounds, postings, threshold, i, top) ==
  IF i >= Len(list_upperbounds) \/ threshold > list_upperbounds[i + 1][1] THEN top
  ELSE MaxScoreTop(list_upperbounds, postings, threshold, i + 1,
                   IF postings[list_upperbounds[i + 1][2] + 1] < postings[list_upperbounds[top + 1][2] + 1]
                   THEN i ELSE top)

(* lines 1921-1932 and 1950-1961: the list at position i (0-based) leaves the
   array and its upper bound leaves the sums before it *)
RemoveList(list_upperbounds, i, curr_list_upperbound) ==
  [j \in 1..(Len(list_upperbounds) - 1) |->
     IF j <= i THEN <<list_upperbounds[j][1] - curr_list_upperbound, list_upperbounds[j][2]>>
     ELSE list_upperbounds[j + 1]]

(* lines 1936-1963: the list at position i, its cursor l on the first docID at
   or beyond curr_doc_id, is scored if it holds curr_doc_id, and leaves the
   array if it has ended *)
ScoreList(ix, st, l, curr_list_idx) ==
  IF CurrDocId(l) = st.curr_doc_id
  THEN CHOOSE out \in
         {[st EXCEPT
             !.lists = Put(@, curr_list_idx, n),
             !.lists_curr_postings = Put(@, curr_list_idx, CurrDocId(n)),
             !.bm25_sum = @ + PostingScore(ix, l.term, st.curr_doc_id),
             !.list_upperbounds =
                IF CurrDocId(n) = kNoMoreDocs
                THEN RemoveList(@, st.i, st.list_thresholds[curr_list_idx + 1]) ELSE @,
             !.i = IF CurrDocId(n) = kNoMoreDocs THEN @ ELSE @ + 1]
            : n \in {NextGEQ(l, st.curr_doc_id + 1)}} : TRUE
  ELSE [st EXCEPT
          !.lists = Put(@, curr_list_idx, l),
          !.lists_curr_postings = Put(@, curr_list_idx, CurrDocId(l)),
          !.list_upperbounds =
             IF CurrDocId(l) = kNoMoreDocs
             THEN RemoveList(@, st.i, st.list_thresholds[curr_list_idx + 1]) ELSE @,
          !.i = IF CurrDocId(l) = kNoMoreDocs THEN @ ELSE @ + 1]

(* lines 1897-1964: one pass of the for loop over the lists, at position i *)
MaxScoreListStep(ix, st, l, curr_list_idx) ==
  IF st.threshold > st.bm25_sum + GetBlockScoreBound(ix, l)
                      + (IF st.i = Len(st.list_upperbounds) - 1 THEN 0
                         ELSE st.list_upperbounds[st.i + 2][1])
  THEN [st EXCEPT
          !.lists = Put(@, curr_list_idx, l),
          !.lists_curr_postings = Put(@, curr_list_idx, CurrDocId(l)),
          !.list_upperbounds = RemoveList(@, st.i, st.list_thresholds[curr_list_idx + 1]),
          !.break = TRUE]
  ELSE ScoreList(ix, st, l, curr_list_idx)

InitMaxScore ==
  /\ index \in MaxScoreIndexes
  /\ index_layered_ = TRUE
  /\ index_overlapping_layers_ = TRUE
  /\ index_num_layers_ = 2
  /\ query_algorithm_ = "kMaxScore"
  /\ max_num_results_ \in 1..MaxResults
  /\ query_term_data = <<1, 2>>
  /\ stop_words_ = {}
  /\ words = query_term_data
  /\ pc = "MergeListsMaxScore"
  /\ lists = <<>>
  /\ merge_lists = <<>>
  /\ lists_curr_postings = <<>>
  /\ did = 0
  /\ results = <<>>
  /\ total_num_results = 0
  /\ scored = <<>>
  /\ num_results = -1
  /\ locals = <<>>

(* lines 1681-1816: the thresholds, the cursors, their first postings and the
   array of upper bounds *)
MergeListsMaxScoreOpen ==
  /\ pc = "MergeListsMaxScore"
  /\ \E open \in {MaxScoreOpenLists(index)} :
     \E ls \in {Tuple([t \in MaxScoreTerms |-> NextGEQ(open[2][t], 0)], 2)} :
     \E postings \in {Tuple([t \in MaxScoreTerms |-> CurrDocId(ls[t])], 2)} :
       locals' = [lists |-> ls, lists_curr_postings |-> postings,
                  list_thresholds |-> open[1],
                  list_upperbounds |-> InitListUpperbounds(open[1], postings),
                  threshold |-> 0, curr_doc_id |-> 0, bm25_sum |-> 0, i |-> 0, break |-> FALSE]
  /\ lists' = locals'.lists
  /\ lists_curr_postings' = locals'.lists_curr_postings
  /\ pc' = "MaxScoreLoop"
  /\ UNCHANGED <<config, merge_lists, did, results, total_num_results, scored, num_results>>

(* lines 1850-1891: the docID to score next *)
MaxScoreSelect ==
  /\ pc = "MaxScoreLoop"
  /\ Len(locals.list_upperbounds) > 0
  /\ ~(locals.threshold > locals.list_upperbounds[1][1])
  /\ \E top \in {MaxScoreTop(locals.list_upperbounds, locals.lists_curr_postings,
                             locals.threshold, 1, 0)} :
       locals' = [locals EXCEPT
                    !.curr_doc_id = locals.lists_curr_postings[locals.list_upperbounds[top + 1][2] + 1],
                    !.bm25_sum = 0, !.i = 0, !.break = FALSE]
  /\ pc' = "MaxScoreLists"
  /\ UNCHANGED <<config, lists, merge_lists, lists_curr_postings, did, results,
                 total_num_results, scored, num_results>>

(* lines 1850, 1881-1883: no list remains, or no list can reach the threshold *)
MaxScoreBreak ==
  /\ pc = "MaxScoreLoop"
  /\ IF Len(locals.list_upperbounds) = 0 THEN TRUE
     ELSE locals.threshold > locals.list_upperbounds[1][1]
  /\ pc' = "MaxScoreSort"
  /\ UNCHANGED <<config, lists, merge_lists, lists_curr_postings, did, results,
                 total_num_results, scored, num_results, locals>>

(* lines 1891-1964: the for loop over the lists, one list *)
MaxScoreList ==
  /\ pc = "MaxScoreLists"
  /\ ~locals.break
  /\ locals.i < Len(locals.list_upperbounds)
  /\ ~(locals.threshold > locals.bm25_sum + locals.list_upperbounds[locals.i + 1][1])
  /\ \E curr_list_idx \in {locals.list_upperbounds[locals.i + 1][2]} :
     \E l \in {NextGEQ(locals.lists[curr_list_idx + 1], locals.curr_doc_id)} :
     \E st \in {MaxScoreListStep(index, locals, l, curr_list_idx)} :
       /\ locals' = st
       /\ lists' = st.lists
       /\ lists_curr_postings' = st.lists_curr_postings
  /\ UNCHANGED <<config, pc, merge_lists, did, results, total_num_results, scored, num_results>>

(* lines 1891-1900, 1966-1982: the for loop is left and the docID is offered to the heap *)
MaxScoreInsert ==
  /\ pc = "MaxScoreLists"
  /\ IF locals.break \/ locals.i >= Len(locals.list_upperbounds) THEN TRUE
     ELSE locals.threshold > locals.bm25_sum + locals.list_upperbounds[locals.i + 1][1]
  /\ \E res \in {TopKInsert(results, total_num_results, max_num_results_,
                            locals.bm25_sum, locals.curr_doc_id)} :
       /\ results' = res
       /\ locals' = [locals EXCEPT
                       !.threshold = IF total_num_results >= max_num_results_
                                        /\ locals.bm25_sum > results[1][1]
                                     THEN res[1][1] ELSE @]
  /\ total_num_results' = total_num_results + 1
  /\ scored' = Append(scored, <<locals.bm25_sum, locals.curr_doc_id>>)
  /\ pc' = "MaxScoreLoop"
  /\ UNCHANGED <<config, lists, merge_lists, lists_curr_postings, did, num_results>>

(* lines 2011-2019: the final sort, *num_results and CloseList *)
MergeListsMaxScoreReturn ==
  /\ pc = "MaxScoreSort"
  /\ ReturnResults

NextMaxScore ==
  \/ MergeListsMaxScoreOpen
  \/ MaxScoreSelect
  \/ MaxScoreBreak
  \/ MaxScoreList
  \/ MaxScoreInsert
  \/ MergeListsMaxScoreReturn

SpecMaxScore == InitMaxScore /\ [][NextMaxScore]_vars

(* the stored sums are the sums of the upper bounds of the lists from each
   position of the array on *)
SuffixSumsExact(list_upperbounds, list_thresholds) ==
  \A i \in 1..Len(list_upperbounds) :
    list_upperbounds[i][1]
      = SumSeq([j \in 1..(Len(list_upperbounds) - i + 1) |->
                  list_thresholds[list_upperbounds[i + j - 1][2] + 1]])

(* the lists (0-based) that are in the array of upper bounds *)
ListsRemaining(list_upperbounds) == {list_upperbounds[i][2] : i \in 1..Len(list_upperbounds)}

(* C18: list removal in MergeListsMaxScore.  A step that takes a list out of
   the array of upper bounds takes out a list whose cursor has returned the
   sentinel, and leaves sums that are the sums of the upper bounds of the
   lists that remain. *)
C18_ListRemoval ==
  [][(pc = "MaxScoreLists" /\ Len(locals'.list_upperbounds) < Len(locals.list_upperbounds)) =>
       /\ \A t \in ListsRemaining(locals.list_upperbounds) \ ListsRemaining(locals'.list_upperbounds) :
            lists_curr_postings'[t + 1] = kNoMoreDocs
       /\ SuffixSumsExact(locals'.list_upperbounds, locals'.list_thresholds)]_vars

(* the sums part of C18 alone: at every point of the loop the stored sums are
   the sums of the upper bounds of the lists in the array *)
C18_SuffixSums ==
  pc \in {"MaxScoreLoop", "MaxScoreLists", "MaxScoreSort"} =>
    SuffixSumsExact(locals.list_upperbounds, locals.list_thresholds)

(* a list has left the array of upper bounds with its cursor on a posting *)
C18_Witness ==
  /\ pc = "MaxScoreLists"
  /\ locals.break
  /\ \E t \in {0, 1} \ ListsRemaining(locals.list_upperbounds) :
       lists_curr_postings[t + 1] # kNoMoreDocs

(* a list has left the array of upper bounds at the end of its postings, another remains *)
C18_WitnessEnded ==
  /\ pc = "MaxScoreLists"
  /\ ~locals.break
  /\ Len(locals.list_upperbounds) = 1
  /\ \E t \in {0, 1} \ ListsRemaining(locals.list_upperbounds) :
       lists_curr_postings[t + 1] = kNoMoreDocs

-----------------------------------------------------------------------------
(* The processing mode of layered TAAT.                                    *)

(* the highest score threshold among the layers of term j at positions i and
   after, 0 when the term has none left *)
HighestRemainingThreshold(q, layers, i, j) ==
  LET S == {layers[n].score_threshold : n \in {m \in (i + 1)..Len(layers) : TermNum(q, layers[m]) = j}} IN
  IF S = {} THEN 0 ELSE CHOOSE x \in S : \A y \in S : y <= x

(* the sum over the query terms of the highest threshold not yet processed *)
RemainingThresholds(q, layers, i) ==
  SumSeq([j \in 1..Len(q) |-> HighestRemainingThreshold(q, layers, i, j - 1)])

(* the docIDs of the accumulators *)
AccumulatorDocIds(st) == {st.accumulators[j].doc_id : j \in 1..Len(st.accumulators)}

(* a layer is processed in this step *)
TaatLayerStep == pc = "ProcessLayers" /\ pc' = "ProcessLayers"

(* C21: the first layer is processed in OR mode; a layer is processed in AND
   mode exactly when the mode was AND already or the sum over the query terms
   of the highest threshold not yet processed is below the threshold; and a
   layer processed in AND mode adds no docID to the accumulators. *)
C21_ProcessingMode ==
  [][TaatLayerStep =>
       /\ (locals.i = 0 => locals'.curr_processing_mode = "kOr")
       /\ (locals'.curr_processing_mode = "kAnd") <=>
            (\/ locals.curr_processing_mode = "kAnd"
             \/ RemainingThresholds(query_term_data, locals.layers, locals.i) < locals.threshold)
       /\ (locals'.curr_processing_mode = "kAnd" =>
             AccumulatorDocIds(locals') \subseteq AccumulatorDocIds(locals))]_vars

(* a layer was processed in AND mode, and the layer holds a document that has
   no accumulator *)
C21_Witness ==
  /\ pc = "ProcessLayers"
  /\ locals.curr_processing_mode = "kAnd"
  /\ \E n \in 1..Len(locals.layers) :
       /\ n <= locals.i + (IF locals.stopped THEN 1 ELSE 0)
       /\ \E j \in 1..Len(locals.layers[n].docs) :
            locals.layers[n].docs[j] \notin AccumulatorDocIds(locals)

(* a layer was processed in AND mode and the next one is processed in AND
   mode too *)
C21_WitnessStays ==
  /\ pc = "ProcessLayers"
  /\ locals.curr_processing_mode = "kAnd"
  /\ ~locals.stopped
  /\ locals.i < Len(locals.layers)

-----------------------------------------------------------------------------
(* The accumulator table of layered TAAT.                                  *)

(* a layer is about to be processed: the for loop is at line 503 *)
AtLayerStart ==
  /\ query_algorithm_ = "kLayeredTaatOrEarlyTerminated"
  /\ pc = "ProcessLayers"
  /\ ~locals.stopped
  /\ locals.i < Len(locals.layers)

(* the docIDs of the accumulators, in the order of the table *)
AccumulatorDocIdSeq == [j \in 1..Len(locals.accumulators) |-> locals.accumulators[j].doc_id]

(* C22: when a layer is about to be processed, the accumulators are in
   strictly ascending docID order: sorted, and no docID twice. *)
C22_AccumulatorsSorted == AtLayerStart => StrictlyAscending(AccumulatorDocIdSeq)

(* a layer is about to be processed, after an earlier one, and the docID order
   of the accumulators is not their ascending score order *)
C22_Witness ==
  /\ AtLayerStart
  /\ locals.i >= 1
  /\ \E j \in 1..(Len(locals.accumulators) - 1) :
       locals.accumulators[j].curr_score > locals.accumulators[j + 1].curr_score

-----------------------------------------------------------------------------
(* ProcessLayeredQuery for the k above MaxResults: the merge of the        *)
(* results of the per-term intersections.                                  *)

MaxPerTermResults == 3   \* k ranges over MaxResults + 1..MaxPerTermResults
MaxPerTermPostings == 6  \* postings in the whole collection

InitPerTerm ==
  /\ index \in IndexesUpTo(MaxPerTermPostings)
  /\ index_layered_ = TRUE
  /\ index_overlapping_layers_ = TRUE
  /\ index_num_layers_ = 2
  /\ query_algorithm_ \in {"kDualLayeredOverlappingDaat", "kDualLayeredOverlappingMergeDaat"}
  /\ max_num_results_ \in (MaxResults + 1)..MaxPerTermResults
  /\ LexiconTerms(index) # {}
  /\ query_term_data = AllTermsQuery(index)
  /\ stop_words_ = {}
  /\ words = query_term_data
  /\ pc = "ProcessLayeredQuery"
  /\ lists = <<>>
  /\ merge_lists = <<>>
  /\ lists_curr_postings = <<>>
  /\ did = 0
  /\ results = <<>>
  /\ total_num_results = 0
  /\ scored = <<>>
  /\ num_results = -1
  /\ locals = <<>>

SpecPerTerm == InitPerTerm /\ [][NextLayered]_vars

(* the results of the per-term intersections have been merged (line 1053) *)
PerTermMerged ==
  /\ pc = "CheckEarlyTermination"
  /\ locals.all_results # <<>>

(* the docIDs of the result array *)
ResultDocIds == Column(SubSeq(results, 1, num_results), 2)

(* C23: after the merge of the results of the per-term intersections, no
   docID is in the result array twice. *)
C23_NoDuplicateDocIds ==
  PerTermMerged => Cardinality(Range(ResultDocIds)) = Len(ResultDocIds)

(* the merge met a document that two intersections returned, and stored it once *)
C23_Witness ==
  /\ PerTermMerged
  /\ Cardinality(Range(ResultDocIds)) = Len(ResultDocIds)
  /\ \E i, j \in 1..Len(locals.all_results) :
       /\ i # j
       /\ \E a \in 1..locals.num_intersection_results[i], b \in 1..locals.num_intersection_results[j] :
            /\ locals.all_results[i][a][2] = locals.all_results[j][b][2]
            /\ locals.all_results[i][a][2] \in Range(ResultDocIds)

-----------------------------------------------------------------------------
(* The decision of ProcessLayeredQuery between its first-phase results and *)
(* the intersection of the last layers.                                    *)

(* every term of the query has two layers *)
AllTermsTwoLayers ==
  \A i \in 1..Len(query_term_data) :
    NumLayers(index, index_layered_, index_overlapping_layers_, index_num_layers_,
              query_term_data[i]) = 2

(* the sum over the terms of the score threshold of the last layer *)
LastLayerThresholds ==
  SumSeq([i \in 1..Len(query_term_data) |->
            LET layers == LexiconLayers(index, index_layered_, index_overlapping_layers_,
                                        index_num_layers_, query_term_data[i])
            IN layers[Len(layers)].score_threshold])

(* the first phase produced k results and the k-th score is above the bound *)
KthScoreAboveBound ==
  /\ num_results >= max_num_results_
  /\ results[max_num_results_][1] > LastLayerThresholds

(* DAAT-AND over the complete lists of the terms, shortest first *)
DaatAndCompleteLists ==
  LET ls == OpenLastLayers(index, FALSE, FALSE, 1, query_term_data) IN
  IntersectLists(index, <<>>, Sort("ListCompare", ls, 0, Len(ls)), max_num_results_)

(* C24: a query with a term of a single layer goes to the intersection of the
   last layers at once; a query whose terms all have two layers returns its
   first-phase results unchanged exactly when there are k of them and the
   k-th score is strictly above the sum of the last-layer thresholds, and
   goes to the intersection of the last layers otherwise; the results of that
   intersection are those of DAAT-AND over the last layers, read from their
   start. *)
C24_LayeredDecision ==
  [][/\ (pc = "ProcessLayeredQuery" =>
           ((pc' = "StandardIntersection") <=> ~AllTermsTwoLayers))
     /\ (pc = "CheckEarlyTermination" =>
           IF KthScoreAboveBound
           THEN pc' = "Done" /\ results' = results /\ num_results' = num_results
           ELSE pc' = "StandardIntersection")
     /\ (pc = "StandardIntersection" =>
           /\ pc' = "Done"
           /\ \E st \in {DaatAndCompleteLists} :
                /\ num_results' = Min(st.total_num_results, max_num_results_)
                /\ SubSeq(results', 1, num_results') = SubSeq(st.results, 1, num_results'))]_vars

(* the first-phase results were returned as final *)
C24_Witness ==
  /\ EarlyTerminated
  /\ AllTermsTwoLayers
  /\ KthScoreAboveBound

(* every term has two layers and the first phase produced k results, the k-th
   not above the bound: the last layers were intersected *)
C24_WitnessBelowBound ==
  /\ pc = "StandardIntersection"
  /\ AllTermsTwoLayers
  /\ num_results >= max_num_results_
  /\ results[max_num_results_][1] <= LastLayerThresholds

(* every term has two layers and the first phase produced fewer than k results *)
C24_WitnessFewer ==
  /\ pc = "StandardIntersection"
  /\ AllTermsTwoLayers
  /\ num_results >= 0
  /\ num_results < max_num_results_

(* a term has a single layer *)
C24_WitnessSingleLayer ==
  /\ query_algorithm_ \in {"kDualLayeredOverlappingDaat", "kDualLayeredOverlappingMergeDaat"}
  /\ pc = "Done"
  /\ ~AllTermsTwoLayers
  /\ num_results > 0

-----------------------------------------------------------------------------
(* QueryProcessor::RunBatchQueries and the query statistics.  A line is a  *)
(* sequence of characters: 1, 2, 3 are the one-letter words of the terms   *)
(* 1, 2, 3, 0 is the space and 4 the colon.  The time a query takes is one *)
(* unit.                                                                   *)

MaxBatchPostings == 2    \* postings in the whole collection, for the batch runs
MaxBatchLines == 2       \* lines of the input

(* the lines of the input: "a", "b a", "c:a", "a:" *)
BatchLines == {<<1>>, <<2, 0, 1>>, <<3, 4, 1>>, <<1, 4>>}

(* the statistics of the constructor, lines 80-92 *)
NoStatistics ==
  [total_num_queries_ |-> 0, total_querying_time_ |-> 0, num_single_term_queries_ |-> 0,
   num_early_terminated_queries_ |-> 0, not_enough_results_definitely_ |-> 0,
   not_enough_results_possibly_ |-> 0, num_queries_containing_single_layered_terms_ |-> 0,
   num_queries_kth_result_meeting_threshold_ |-> 0,
   num_queries_kth_result_not_meeting_threshold_ |-> 0,
   num_postings_scored_ |-> 0, num_postings_skipped_ |-> 0]

(* lines 2500-2505: the line without its label, when a colon is before its last character *)
StripLabel(query_line) ==
  LET colons == {i \in 1..Len(query_line) : query_line[i] = 4} IN
  IF colons = {} THEN query_line
  ELSE LET colon_pos == (CHOOSE i \in colons : \A j \in colons : i <= j) - 1 IN
       IF colon_pos < Len(query_line) - 1
       THEN SubSeq(query_line, colon_pos + 2, Len(query_line))
       ELSE query_line

RECURSIVE WordOf(_, _)
(* a word as a number: a one-letter word is its term, and no other word is a term *)
WordOf(token, i) == IF i = 0 THEN 0 ELSE 5 * WordOf(token, i - 1) + token[i]

RECURSIVE Tokens(_, _, _)
(* lines 2335-2338: the words of the line, which spaces separate *)
Tokens(query_line, i, token) ==
  IF i >= Len(query_line)
  THEN (IF token = <<>> THEN <<>> ELSE <<WordOf(token, Len(token))>>)
  ELSE IF query_line[i + 1] = 0
       THEN (IF token = <<>> THEN <<>> ELSE <<WordOf(token, Len(token))>>)
            \o Tokens(query_line, i + 1, <<>>)
       ELSE Tokens(query_line, i + 1, Append(token, query_line[i + 1]))

RECURSIVE PostingsScored(_, _, _, _)
(* lines 1284-1291: the postings MergeLists scores, one for every list that holds
   a document it scores *)
PostingsScored(ix, q, scored_docs, i) ==
  IF i >= Len(scored_docs) THEN 0
  ELSE Cardinality({j \in 1..Len(q) : ix[q[j]][scored_docs[i + 1][2]] > 0})
       + PostingsScored(ix, q, scored_docs, i + 1)

(* lines 262-306: the statistics after ProcessQuery with kDaatOr *)
ProcessQueryStatistics(stats, ix, layered, overlapping, num_layers, q, k, warm_up_mode_) ==
  CHOOSE out \in
    {[stats EXCEPT
        !.num_single_term_queries_ = IF Len(q) = 1 /\ ~warm_up_mode_ THEN @ + 1 ELSE @,
        !.num_postings_scored_ = @ + PostingsScored(ix, q, st.scored, 0)]
       : st \in {MergeLists(ix, OpenLastLayers(ix, layered, overlapping, num_layers, q), k)}}
    : TRUE

(* lines 1013-1053: the results of the per-term intersections, merged *)
MergedFirstPhase(all, k) ==
  CHOOSE out \in
    {[results |-> m[1], num_results |-> m[2],
      total_num_results |-> SumSeq([i \in 1..Len(all) |-> all[i].total_num_results])]
       : m \in {MergeResults([i \in 1..Len(all) |-> all[i].results],
                             [i \in 1..Len(all) |-> Min(all[i].total_num_results, k)],
                             <<>>, k)}}
    : TRUE

(* lines 949-1053: the results of the first phase of ProcessLayeredQuery on the
   layers opened *)
FirstPhaseResults(ix, algorithm, q, k, list_data_pointers) ==
  IF algorithm = "kDualLayeredOverlappingMergeDaat" /\ Len(q) > 2
  THEN CHOOSE out \in
         {[results |-> st.results, num_results |-> Min(st.total_num_results, k),
           total_num_results |-> st.total_num_results]
            : st \in {IntersectLists(ix, [i \in 1..Len(q) |-> list_data_pointers[i][1]],
                                     Sort("ListCompare",
                                          [i \in 1..Len(q) |-> list_data_pointers[i][2]],
                                          0, Len(q)),
                                     k)}}
         : TRUE
  ELSE CHOOSE out \in
         {MergedFirstPhase(all, k)
            : all \in {Tuple([i \in 1..Len(q) |->
                                IntersectLists(ix, <<>>,
                                               IntersectionLists(list_data_pointers, i - 1), k)],
                             Len(q))}}
         : TRUE

(* lines 933-1053: the layers opened and the first phase run *)
LayeredFirstPhase(ix, layered, overlapping, num_layers, algorithm, q, k) ==
  CHOOSE out \in
    {FirstPhaseResults(ix, algorithm, q, k, list_data_pointers)
       : list_data_pointers \in {OpenListLayers(ix, layered, overlapping, num_layers, q)}}
    : TRUE

(* lines 1056-1107: the statistics after the early termination test on the
   results of the first phase *)
EarlyTerminationStatistics(stats, fp, remaining_document_score_upperbound, k, warm_up_mode_) ==
  IF fp.num_results >= k
  THEN IF fp.results[Min(k - 1, fp.num_results - 1) + 1][1] > remaining_document_score_upperbound
       THEN [stats EXCEPT
               !.num_queries_kth_result_meeting_threshold_ = @ + 1,
               !.num_early_terminated_queries_ = IF ~warm_up_mode_ THEN @ + 1 ELSE @]
       ELSE [stats EXCEPT !.num_queries_kth_result_not_meeting_threshold_ = @ + 1]
  ELSE IF ~warm_up_mode_
       THEN IF fp.total_num_results < k
            THEN [stats EXCEPT !.not_enough_results_definitely_ = @ + 1]
            ELSE [stats EXCEPT !.not_enough_results_possibly_ = @ + 1]
       ELSE stats

(* lines 321-324: the single term queries counted in OpenListLayers *)
OpenListLayersStatistics(stats, q, warm_up_mode_) ==
  [stats EXCEPT !.num_single_term_queries_ = IF Len(q) = 1 /\ ~warm_up_mode_ THEN @ + 1 ELSE @]

(* lines 933-1120: the statistics after ProcessLayeredQuery *)
ProcessLayeredQueryStatistics(stats, ix, layered, overlapping, num_layers, algorithm, q, k, warm_up_mode_) ==
  CHOOSE out \in
    {IF SingleLayerListIdx(ix, layered, overlapping, num_layers, q) # -1
     THEN [s1 EXCEPT !.num_queries_containing_single_layered_terms_ = @ + 1,
                     !.num_early_terminated_queries_ = IF ~warm_up_mode_ THEN @ + 1 ELSE @]
     ELSE CHOOSE s2 \in
            {EarlyTerminationStatistics(
               s1, fp, ThresholdSum(ix, layered, overlapping, num_layers, q, 0), k,
               warm_up_mode_)
               : fp \in {LayeredFirstPhase(ix, layered, overlapping, num_layers, algorithm,
                                           q, k)}}
            : TRUE
       : s1 \in {OpenListLayersStatistics(stats, q, warm_up_mode_)}}
    : TRUE

(* lines 2410-2451: the statistics after the evaluator, and the query counted *)
EvaluatorStatistics(stats, ix, layered, overlapping, num_layers, algorithm, q, k, warm_up_mode_) ==
  CHOOSE out \in
    {IF ~warm_up_mode_
     THEN [s1 EXCEPT !.total_querying_time_ = @ + 1, !.total_num_queries_ = @ + 1]
     ELSE s1
       : s1 \in {IF Evaluator(algorithm) = "ProcessQuery"
                 THEN ProcessQueryStatistics(stats, ix, layered, overlapping, num_layers, q, k,
                                             warm_up_mode_)
                 ELSE ProcessLayeredQueryStatistics(stats, ix, layered, overlapping,
                                                    num_layers, algorithm, q, k,
                                                    warm_up_mode_)}}
    : TRUE

(* lines 2350-2410: the statistics after ExecuteQuery on the words w of the line, of
   which the lexicon holds found *)
QueryStatistics(stats, ix, layered, overlapping, num_layers, algorithm, k, w, found, warm_up_mode_) ==
  IF w = <<>> THEN stats
  ELSE IF Len(found) = NumQueryTerms(ProcessingSemantics(algorithm), w, Len(found))
       THEN EvaluatorStatistics(stats, ix, layered, overlapping, num_layers, algorithm, found,
                                k, warm_up_mode_)
       ELSE stats

(* lines 2323-2491: the statistics after ExecuteQuery(query_line) *)
ExecuteQueryStatistics(stats, ix, layered, overlapping, num_layers, algorithm, stop_words, k, query_line, warm_up_mode_) ==
  CHOOSE out \in
    {QueryStatistics(stats, ix, layered, overlapping, num_layers, algorithm, k, w,
                     GetEntries(ix, w, 0), warm_up_mode_)
       : w \in {QueryWords(Tokens(query_line, 0, <<>>), stop_words)}}
    : TRUE

(* the orders random_shuffle can leave n queries in *)
Shuffles(n) == {f \in [1..n -> 1..n] : \A i, j \in 1..n : i # j => f[i] # f[j]}

InitBatch ==
  /\ index \in IndexesUpTo(MaxBatchPostings)
  /\ query_algorithm_ \in {"kDaatOr", "kDualLayeredOverlappingDaat"}
  /\ index_layered_ = (query_algorithm_ = "kDualLayeredOverlappingDaat")
  /\ index_overlapping_layers_ = index_layered_
  /\ index_num_layers_ = IF index_layered_ THEN 2 ELSE 1
  /\ max_num_results_ \in 1..MaxResults
  /\ stop_words_ = {}
  /\ query_term_data = <<>>
  /\ words = <<>>
  /\ pc = "RunBatchQueries"
  /\ lists = <<>>
  /\ merge_lists = <<>>
  /\ lists_curr_postings = <<>>
  /\ did = 0
  /\ results = <<>>
  /\ total_num_results = 0
  /\ scored = <<>>
  /\ num_results = -1
  /\ \E is \in UNION {[1..n -> BatchLines] : n \in 0..MaxBatchLines} :
       \E percentage_test_queries \in {<<1, 100>>, <<1, 1>>} :   \* 0.01f and 1.0f, lines 120-132
         locals = [is |-> is, percentage_test_queries |-> percentage_test_queries,
                   stats |-> NoStatistics]

(* lines 2497-2515: the lines read and stripped of their labels, shuffled when
   some are warm-up queries, and the warm-up mode entered; order[i] is the
   input line that queries[i - 1] came from *)
RunBatchQueries ==
  /\ pc = "RunBatchQueries"
  /\ \E order \in IF locals.percentage_test_queries # <<1, 1>>
                  THEN Shuffles(Len(locals.is))
                  ELSE {[i \in 1..Len(locals.is) |-> i]} :
       \E num_test_queries \in {(locals.percentage_test_queries[1] * Len(locals.is)
                                   + locals.percentage_test_queries[2] - 1)
                                  \div locals.percentage_test_queries[2]} :
         locals' = [is |-> locals.is,
                    percentage_test_queries |-> locals.percentage_test_queries,
                    stats |-> locals.stats,
                    order |-> order,
                    queries |-> [i \in 1..Len(locals.is) |-> StripLabel(locals.is[order[i]])],
                    num_warm_up_queries |-> Len(locals.is) - num_test_queries,
                    i |-> 0, warm_up_mode_ |-> TRUE, executed |-> <<>>]
  /\ pc' = "WarmUp"
  /\ UNCHANGED <<config, lists, merge_lists, lists_curr_postings, did, results,
                 total_num_results, scored, num_results>>

(* lines 2516-2518, 2524-2526: ExecuteQuery(queries[i], 0) in either loop *)
BatchExecuteQuery ==
  /\ pc \in {"WarmUp", "Counted"}
  /\ locals.i < (IF pc = "WarmUp" THEN locals.num_warm_up_queries ELSE Len(locals.queries))
  /\ \E stats \in {ExecuteQueryStatistics(locals.stats, index, index_layered_,
                                          index_overlapping_layers_, index_num_layers_,
                                          query_algorithm_, stop_words_, max_num_results_,
                                          locals.queries[locals.i + 1], locals.warm_up_mode_)} :
       locals' = [locals EXCEPT
                    !.stats = stats,
                    !.executed = Append(@, [line |-> locals.order[locals.i + 1],
                                            warm_up_mode_ |-> locals.warm_up_mode_]),
                    !.i = @ + 1]
  /\ UNCHANGED <<config, pc, lists, merge_lists, lists_curr_postings, did, results,
                 total_num_results, scored, num_results>>

(* lines 2518-2524: the end of the warm-up loop; the counted loop starts at
   num_warm_up_queries *)
EndWarmUp ==
  /\ pc = "WarmUp"
  /\ locals.i >= locals.num_warm_up_queries
  /\ locals' = [locals EXCEPT !.warm_up_mode_ = FALSE, !.i = locals.num_warm_up_queries]
  /\ pc' = "Counted"
  /\ UNCHANGED <<config, lists, merge_lists, lists_curr_postings, did, results,
                 total_num_results, scored, num_results>>

(* lines 2524-2527: the end of the counted loop *)
RunBatchQueriesReturn ==
  /\ pc = "Counted"
  /\ locals.i >= Len(locals.queries)
  /\ pc' = "Done"
  /\ UNCHANGED <<config, lists, merge_lists, lists_curr_postings, did, results,
                 total_num_results, scored, num_results, locals>>

NextBatch ==
  \/ RunBatchQueries
  \/ BatchExecuteQuery
  \/ EndWarmUp
  \/ RunBatchQueriesReturn

SpecBatch == InitBatch /\ [][NextBatch]_vars

(* C25: a query executed in warm-up mode leaves every query statistic as it
   was, and when the batch returns the lines executed are the input lines,
   each once, the warm-up ones before the counted ones. *)
C25_WarmUpFrame ==
  [][(pc = "WarmUp" /\ pc' = "WarmUp") => locals'.stats = locals.stats]_vars

(* C25, the order of the batch: when it returns every input line has been
   executed exactly once, the warm-up queries before the counted ones *)
C25_BatchOrder ==
  pc = "Done" =>
    /\ Len(locals.executed) = Len(locals.is)
    /\ {locals.executed[i].line : i \in 1..Len(locals.executed)} = 1..Len(locals.is)
    /\ \A i, j \in 1..Len(locals.executed) :
         (locals.executed[i].warm_up_mode_ /\ ~locals.executed[j].warm_up_mode_) => i < j

(* C25, the statistics that lines 268, 322, 1082, 1094, 1118 and 2448 guard
   with warm_up_mode_: a query executed in warm-up mode leaves them as they
   were *)
C25_GuardedStatistics ==
  [][(pc = "WarmUp" /\ pc' = "WarmUp") =>
       \A f \in {"total_num_queries_", "total_querying_time_", "num_single_term_queries_",
                 "num_early_terminated_queries_", "not_enough_results_definitely_",
                 "not_enough_results_possibly_"} :
         locals'.stats[f] = locals.stats[f]]_vars

(* a warm-up query that the evaluator ran has been executed, and a counted
   query after it *)
C25_Witness ==
  /\ pc = "Done"
  /\ \E i \in 1..Len(locals.executed) : locals.executed[i].warm_up_mode_
  /\ locals.stats.total_num_queries_ > 0
  /\ locals.stats.num_postings_scored_
       + locals.stats.num_queries_containing_single_layered_terms_ > 0

-----------------------------------------------------------------------------
(* The cursors of the evaluators.  The table cursors holds a record for    *)
(* every cursor IndexReader::OpenList returned, in the order of the calls; *)
(* a ListData* is the position of its cursor in the table.  A record       *)
(* counts the times the cursor was passed to CloseList, and tells whether  *)
(* the cursor was used and whether it was used after it was closed.        *)

kMaxLayers == 3          \* MAX_LIST_LAYERS, the layers a list may have
MaxCursorPostings == 3   \* postings in the whole collection, for the cursors

(* the algorithms LoadIndexProperties accepts *)
Algorithms ==
  {"kDaatAnd", "kDaatOr", "kDaatAndTopPositions", "kDualLayeredOverlappingDaat",
   "kDualLayeredOverlappingMergeDaat", "kLayeredTaatOrEarlyTerminated", "kWand",
   "kDualLayeredWand", "kMaxScore", "kDualLayeredMaxScore"}

(* ExecuteQuery, lines 2417-2445: the function the algorithm is dispatched to *)
Dispatch(algorithm) ==
  CASE algorithm \in {"kDaatAnd", "kDaatOr", "kDaatAndTopPositions"} -> "ProcessQuery"
    [] algorithm \in {"kDualLayeredOverlappingDaat", "kDualLayeredOverlappingMergeDaat"} ->
         "ProcessLayeredQuery"
    [] algorithm = "kLayeredTaatOrEarlyTerminated" ->
         "ProcessLayeredTaatPrunedEarlyTerminatedQuery"
    [] algorithm \in {"kWand", "kDualLayeredWand"} -> "MergeListsWand"
    [] algorithm \in {"kMaxScore", "kDualLayeredMaxScore"} -> "MergeListsMaxScore"
    [] OTHER -> "default"

(* layer_num_docs of every layer of every query term *)
QueryLayers(ix, layered, overlapping, num_layers, q) ==
  Tuple([i \in 1..Len(q) |->
           [j \in 1..NumLayers(ix, layered, overlapping, num_layers, q[i]) |->
              LexiconLayers(ix, layered, overlapping, num_layers, q[i])[j].num_docs]],
        Len(q))

(* IndexReader::OpenList on layer layer_num of query term i: a new cursor *)
OpenCursor(cursors, lex, i, layer_num) ==
  Append(cursors, [term |-> i, layer_num |-> layer_num, num_docs |-> lex[i + 1][layer_num + 1],
                   closed |-> 0, used |-> FALSE, used_after_close |-> FALSE])

(* IndexReader::CloseList(list) *)
CloseCursor(cursors, list) == [cursors EXCEPT ![list].closed = @ + 1]

(* NextGEQ, GetFreq, ResetList and the accessors of the cursor *)
UseCursor(cursors, list) ==
  [cursors EXCEPT ![list].used = TRUE,
                  ![list].used_after_close = (@ \/ cursors[list].closed > 0)]

RECURSIVE UseCursors(_, _, _)
(* an evaluator run over the lists of the array, from position i on *)
UseCursors(cursors, list_data_pointers, i) ==
  IF i >= Len(list_data_pointers) THEN cursors
  ELSE UseCursors(UseCursor(cursors, list_data_pointers[i + 1]), list_data_pointers, i + 1)

RECURSIVE CloseCursors(_, _, _)
(* lines 302-304, 1663-1665, 2016-2018: CloseList on every element of the array *)
CloseCursors(cursors, list_data_pointers, i) ==
  IF i >= Len(list_data_pointers) THEN cursors
  ELSE CloseCursors(CloseCursor(cursors, list_data_pointers[i + 1]), list_data_pointers, i + 1)

RECURSIVE OpenLayerOfEach(_, _, _, _)
(* lines 273-279, 1431-1433, 1700-1702: a cursor on the last layer (ProcessQuery) or on
   the first layer (MergeListsWand, MergeListsMaxScore) of every term *)
OpenLayerOfEach(st, lex, last, i) ==
  IF i >= Len(lex) THEN st
  ELSE OpenLayerOfEach(
         [cursors |-> OpenCursor(st.cursors, lex, i, IF last THEN Len(lex[i + 1]) - 1 ELSE 0),
          list_data_pointers |-> Append(st.list_data_pointers, Len(st.cursors) + 1)],
         lex, last, i + 1)

RECURSIVE OpenListLayersSharing(_, _, _, _, _)
(* a variant that fills the layers a term does not have with the pointer to its last
   layer, without a second OpenList *)
OpenListLayersSharing(st, lex, max_layers, i, j) ==
  IF i >= Len(lex) THEN st
  ELSE IF j >= max_layers THEN OpenListLayersSharing(st, lex, max_layers, i + 1, 0)
  ELSE IF j < Len(lex[i + 1])
       THEN OpenListLayersSharing(
              [cursors |-> OpenCursor(st.cursors, lex, i, j),
               list_data_pointers |->
                 [st.list_data_pointers EXCEPT ![i + 1] = Append(@, Len(st.cursors) + 1)]],
              lex, max_layers, i, j + 1)
       ELSE OpenListLayersSharing(
              [cursors |-> st.cursors,
               list_data_pointers |->
                 [st.list_data_pointers EXCEPT
                    ![i + 1] = Append(@, st.list_data_pointers[i + 1][Len(lex[i + 1])])]],
              lex, max_layers, i, j + 1)

RECURSIVE OpenListLayersCursors(_, _, _, _, _)
(* OpenListLayers, lines 332-350: a cursor for every layer j < max_layers of every term,
   on layer j when the term has it and on the last layer of the term otherwise *)
OpenListLayersCursors(st, lex, max_layers, i, j) ==
  IF i >= Len(lex) THEN st
  ELSE IF j >= max_layers THEN OpenListLayersCursors(st, lex, max_layers, i + 1, 0)
  ELSE OpenListLayersCursors(
         [cursors |-> OpenCursor(st.cursors, lex, i,
                                 IF j < Len(lex[i + 1]) THEN j ELSE Len(lex[i + 1]) - 1),
          list_data_pointers |->
            [st.list_data_pointers EXCEPT ![i + 1] = Append(@, Len(st.cursors) + 1)]],
         lex, max_layers, i, j + 1)

RECURSIVE CloseListLayers(_, _, _, _, _)
(* CloseListLayers, lines 356-362, and lines 662-666: CloseList on
   list_data_pointers[i][j] for every term i and every j < max_layers *)
CloseListLayers(cursors, list_data_pointers, max_layers, i, j) ==
  IF i >= Len(list_data_pointers) THEN cursors
  ELSE IF j >= max_layers
       THEN CloseListLayers(cursors, list_data_pointers, max_layers, i + 1, 0)
       ELSE CloseListLayers(CloseCursor(cursors, list_data_pointers[i + 1][j + 1]),
                            list_data_pointers, max_layers, i, j + 1)

(* sort(list_data_pointers, list_data_pointers + n, ListCompare()) *)
SortPointers(cursors, list_data_pointers) ==
  CHOOSE out \in
    {[i \in 1..Len(list_data_pointers) |-> sorted[i].list]
       : sorted \in {Sort("ListCompare",
                          [i \in 1..Len(list_data_pointers) |->
                             [num_docs |-> cursors[list_data_pointers[i]].num_docs,
                              list |-> list_data_pointers[i]]],
                          0, Len(list_data_pointers))}}
    : TRUE

(* the pointers to layer j of every term, or to the last layer of every term *)
LayerPointers(list_data_pointers, lex, j, last) ==
  [i \in 1..Len(list_data_pointers) |->
     list_data_pointers[i][IF last THEN Len(lex[i]) ELSE j + 1]]

RECURSIVE RealLayerPointers(_, _, _, _)
(* lines 396-408: the pointers to the layers the terms have *)
RealLayerPointers(list_data_pointers, lex, i, j) ==
  IF i >= Len(lex) THEN <<>>
  ELSE IF j >= Len(lex[i + 1]) THEN RealLayerPointers(list_data_pointers, lex, i + 1, 0)
  ELSE <<list_data_pointers[i + 1][j + 1]>>
         \o RealLayerPointers(list_data_pointers, lex, i, j + 1)

(* lines 1443-1457, 1712-1726: a query of one term runs MergeLists on the first layer
   and, when the term has two layers and that gave fewer than kMaxNumResults results,
   closes the first layer and runs MergeLists on the last *)
SingleTermCursors(st, lex, layered, rerun) ==
  IF layered /\ Len(lex[1]) = 2 /\ rerun
  THEN CHOOSE out \in
         {[cursors |-> UseCursor(c, Len(c)), list_data_pointers |-> <<Len(c)>>]
            : c \in {OpenCursor(CloseCursor(UseCursor(st.cursors, st.list_data_pointers[1]),
                                            st.list_data_pointers[1]),
                                lex, 0, Len(lex[1]) - 1)}}
         : TRUE
  ELSE [st EXCEPT !.cursors = UseCursor(@, st.list_data_pointers[1])]

RECURSIVE SwitchToLastLayers(_, _, _)
(* lines 1487-1497, 1756-1766: a list of one layer is reset, a list of two layers has
   its first layer closed and its last layer opened *)
SwitchToLastLayers(st, lex, i) ==
  IF i >= Len(lex) THEN st
  ELSE IF Len(lex[i + 1]) = 1
       THEN SwitchToLastLayers([st EXCEPT !.cursors = UseCursor(@, st.list_data_pointers[i + 1])],
                               lex, i + 1)
       ELSE SwitchToLastLayers(
              [cursors |-> OpenCursor(CloseCursor(st.cursors, st.list_data_pointers[i + 1]),
                                      lex, i, Len(lex[i + 1]) - 1),
               list_data_pointers |->
                 [st.list_data_pointers EXCEPT ![i + 1] = Len(st.cursors) + 1]],
              lex, i + 1)

(* the layers of the query terms in the index loaded *)
Lex == QueryLayers(index, index_layered_, index_overlapping_layers_, index_num_layers_, query_term_data)

(* the evaluator the query is dispatched to *)
EntryPoint == Dispatch(query_algorithm_)

InitCursors ==
  /\ index \in IndexesUpTo(MaxCursorPostings)
  /\ query_algorithm_ \in Algorithms
  /\ index_layered_ \in BOOLEAN
  /\ index_overlapping_layers_ \in BOOLEAN
  /\ index_overlapping_layers_ => index_layered_
  /\ index_num_layers_ = IF index_layered_ THEN 2 ELSE 1
  /\ Dispatch(query_algorithm_) = "ProcessQuery" => ~(index_layered_ /\ ~index_overlapping_layers_)
  /\ Dispatch(query_algorithm_) = "ProcessLayeredQuery" =>
       index_layered_ /\ index_overlapping_layers_
  /\ Dispatch(query_algorithm_) = "ProcessLayeredTaatPrunedEarlyTerminatedQuery" =>
       index_layered_ /\ ~index_overlapping_layers_
  /\ Dispatch(query_algorithm_) \in {"MergeListsWand", "MergeListsMaxScore"} =>
       index_layered_ /\ index_overlapping_layers_     \* asserted at 1414-1416, 1683-1685
  /\ max_num_results_ \in 1..MaxResults
  /\ LexiconTerms(index) # {}
  /\ query_term_data = AllTermsQuery(index)
  /\ stop_words_ = {}
  /\ words = query_term_data
  /\ pc = "Entry"
  /\ lists = <<>>
  /\ merge_lists = <<>>
  /\ lists_curr_postings = <<>>
  /\ did = 0
  /\ results = <<>>
  /\ total_num_results = 0
  /\ scored = <<>>
  /\ num_results = 0
  /\ locals = [cursors |-> <<>>, list_data_pointers |-> <<>>]

(* lines 264-279, 380-383, 938-941, 1421-1433, 1690-1702: the lists are opened *)
OpenLists ==
  /\ pc = "Entry"
  /\ locals' =
       IF EntryPoint \in {"ProcessLayeredQuery", "ProcessLayeredTaatPrunedEarlyTerminatedQuery"}
       THEN OpenListLayersCursors(
              [cursors |-> <<>>, list_data_pointers |-> [i \in 1..Len(Lex) |-> <<>>]],
              Lex, kMaxLayers, 0, 0)
       ELSE OpenLayerOfEach([cursors |-> <<>>, list_data_pointers |-> <<>>], Lex,
                            EntryPoint = "ProcessQuery", 0)
  /\ pc' = "FirstPhase"
  /\ UNCHANGED <<config, lists, merge_lists, lists_curr_postings, did, results,
                 total_num_results, scored, num_results>>

(* the first layer of the only term gave fewer than kMaxNumResults results *)
FirstLayerShort ==
  MergeLists(index, OpenFirstLayers(index, index_layered_, index_overlapping_layers_,
                                    index_num_layers_, query_term_data),
             max_num_results_).total_num_results < max_num_results_

(* lines 281-299: ProcessQuery sorts the pointers for the intersections and runs the
   evaluator *)
ProcessQueryPhase ==
  \E ptrs \in {IF query_algorithm_ = "kDaatOr" THEN locals.list_data_pointers
               ELSE SortPointers(locals.cursors, locals.list_data_pointers)} :
    locals' = [cursors |-> UseCursors(locals.cursors, ptrs, 0), list_data_pointers |-> ptrs]

(* lines 947-1053: the first phase of ProcessLayeredQuery, on the first and second
   layers when every term has two *)
LayeredFirstPhaseCursors ==
  locals' =
    IF SingleLayerListIdx(index, index_layered_, index_overlapping_layers_, index_num_layers_,
                          query_term_data) = -1
    THEN [locals EXCEPT
            !.cursors = UseCursors(UseCursors(@, LayerPointers(locals.list_data_pointers, Lex,
                                                               0, FALSE), 0),
                                   LayerPointers(locals.list_data_pointers, Lex, 1, FALSE), 0)]
    ELSE locals

(* lines 396-651: the layers of the terms, which the layer loop processes *)
TaatCursors ==
  locals' = [locals EXCEPT
               !.cursors = UseCursors(@, RealLayerPointers(locals.list_data_pointers, Lex,
                                                           0, 0), 0)]

(* lines 1442-1497, 1711-1766: the single term query, or the run over the first
   layers and the switch to the last layers *)
TopDocsPhase ==
  locals' =
    IF Len(query_term_data) = 1
    THEN SingleTermCursors(locals, Lex, index_layered_, FirstLayerShort)
    ELSE SwitchToLastLayers(
           IF query_algorithm_ \in {"kDualLayeredWand", "kDualLayeredMaxScore"}
           THEN [locals EXCEPT !.cursors = UseCursors(@, locals.list_data_pointers, 0)]
           ELSE locals,
           Lex, 0)

(* the evaluator runs up to its second phase *)
FirstPhase ==
  /\ pc = "FirstPhase"
  /\ CASE EntryPoint = "ProcessQuery" -> ProcessQueryPhase
       [] EntryPoint = "ProcessLayeredQuery" -> LayeredFirstPhaseCursors
       [] EntryPoint = "ProcessLayeredTaatPrunedEarlyTerminatedQuery" -> TaatCursors
       [] OTHER -> TopDocsPhase
  /\ pc' = IF EntryPoint = "ProcessLayeredQuery"
              \/ (EntryPoint \in {"MergeListsWand", "MergeListsMaxScore"}
                  /\ Len(query_term_data) # 1)
           THEN "SecondPhase" ELSE "Close"
  /\ UNCHANGED <<config, lists, merge_lists, lists_curr_postings, did, results,
                 total_num_results, scored, num_results>>

(* lines 1056-1120: run_standard_intersection *)
RunStandardIntersection ==
  \/ SingleLayerListIdx(index, index_layered_, index_overlapping_layers_, index_num_layers_,
                        query_term_data) # -1
  \/ \E fp \in {LayeredFirstPhase(index, index_layered_, index_overlapping_layers_,
                                  index_num_layers_, query_algorithm_, query_term_data,
                                  max_num_results_)} :
       ~(/\ fp.num_results >= max_num_results_
         /\ fp.results[Min(max_num_results_ - 1, fp.num_results - 1) + 1][1]
              > ThresholdSum(index, index_layered_, index_overlapping_layers_,
                             index_num_layers_, query_term_data, 0))

(* lines 1122-1133: the last layers are reset and intersected; lines 1499-1657,
   1768-2011: the main loop of WAND and of MaxScore runs over the lists *)
SecondPhase ==
  /\ pc = "SecondPhase"
  /\ locals' =
       IF EntryPoint = "ProcessLayeredQuery"
       THEN IF RunStandardIntersection
            THEN [locals EXCEPT
                    !.cursors = UseCursors(@, LayerPointers(locals.list_data_pointers, Lex,
                                                            0, TRUE), 0)]
            ELSE locals
       ELSE [locals EXCEPT !.cursors = UseCursors(@, locals.list_data_pointers, 0)]
  /\ pc' = "Close"
  /\ UNCHANGED <<config, lists, merge_lists, lists_curr_postings, did, results,
                 total_num_results, scored, num_results>>

(* lines 302-305, 662-669, 1135-1138, 1663-1666, 2016-2019: the lists are closed and the
   function returns *)
CloseLists ==
  /\ pc = "Close"
  /\ locals' =
       [locals EXCEPT
          !.cursors =
            IF EntryPoint \in {"ProcessLayeredQuery",
                               "ProcessLayeredTaatPrunedEarlyTerminatedQuery"}
            THEN CloseListLayers(@, locals.list_data_pointers, kMaxLayers, 0, 0)
            ELSE CloseCursors(@, locals.list_data_pointers, 0)]
  /\ pc' = "Done"
  /\ UNCHANGED <<config, lists, merge_lists, lists_curr_postings, did, results,
                 total_num_results, scored, num_results>>

NextCursors == OpenLists \/ FirstPhase \/ SecondPhase \/ CloseLists

SpecCursors == InitCursors /\ [][NextCursors]_vars

(* C26: in every evaluator and for every query, no cursor is passed to CloseList twice,
   no cursor is used after it was closed, and when the function has returned every
   cursor OpenList returned has been passed to CloseList exactly once *)
C26_CursorLifecycle ==
  \A c \in 1..Len(locals.cursors) :
    /\ locals.cursors[c].closed <= 1
    /\ ~locals.cursors[c].used_after_close
    /\ pc = "Done" => locals.cursors[c].closed = 1

(* a run of WAND or MaxScore has returned after it closed the first layers, opened
   the last layers and used them *)
C26_Witness ==
  /\ pc = "Done"
  /\ EntryPoint \in {"MergeListsWand", "MergeListsMaxScore"}
  /\ Len(locals.cursors) > Len(query_term_data)
  /\ \A i \in 1..Len(locals.list_data_pointers) :
       locals.cursors[locals.list_data_pointers[i]].used

(* a run of a layered evaluator has returned that held, for a term of one layer, more
   than one cursor on that layer *)
C26_WitnessLayers ==
  /\ pc = "Done"
  /\ EntryPoint \in {"ProcessLayeredQuery", "ProcessLayeredTaatPrunedEarlyTerminatedQuery"}
  /\ \E c, d \in 1..Len(locals.cursors) :
       /\ c # d
       /\ locals.cursors[c].term = locals.cursors[d].term
       /\ locals.cursors[c].layer_num = locals.cursors[d].layer_num

-----------------------------------------------------------------------------
(* MergeListsMaxScore against exhaustive DAAT-OR over the same lists.      *)

(* the BM25 score of document d over the lists of the query *)
CompleteScore(ix, d) ==
  SumSeq([t \in MaxScoreTerms |-> IF ix[t][d] > 0 THEN PostingScore(ix, t, d) ELSE 0])

RECURSIVE DaatOrTopK(_, _, _, _, _)
(* MergeLists, lines 1270-1321: every docID of the lists, in ascending order, is
   scored completely and offered to the heap of k results *)
DaatOrTopK(ix, doc_ids, heap, n, k) ==
  IF doc_ids = <<>> THEN SortResults(heap, n, k)
  ELSE DaatOrTopK(ix, Tail(doc_ids),
                  TopKInsert(heap, n, k, CompleteScore(ix, Head(doc_ids)), Head(doc_ids)),
                  n + 1, k)

(* the results of DAAT-OR on the query of the two terms *)
DaatOrResults(ix, k) ==
  DaatOrTopK(ix, SetToSeq({d \in MaxScoreDocs : \E t \in MaxScoreTerms : ix[t][d] > 0}),
             <<>>, 0, k)

(* the scores of the results, in the order returned *)
ResultScores(res, n) == [i \in 1..n |-> res[i][1]]

(* C27: MaxScore rank-safety.  When MergeListsMaxScore has returned, no docID is in
   the results twice, every result carries the complete score of its document, and
   the scores returned are the scores DAAT-OR returns for the same lists and k. *)
C27_MaxScoreRankSafe ==
  pc = "Done" =>
    /\ \A i, j \in 1..num_results : i # j => results[i][2] # results[j][2]
    /\ \A i \in 1..num_results : results[i][1] = CompleteScore(index, results[i][2])
    /\ ResultScores(results, num_results)
         = ResultScores(DaatOrResults(index, max_num_results_), num_results)

(* the part of C27 on duplicates alone: no docID is returned twice *)
C27_NoDuplicates ==
  pc = "Done" => \A i, j \in 1..num_results : i # j => results[i][2] # results[j][2]

(* MergeListsMaxScore has returned the results of DAAT-OR after it left out
   documents of the lists *)
C27_Witness ==
  /\ pc = "Done"
  /\ num_results = max_num_results_
  /\ Len(scored) < Cardinality(MaxScoreDocs)
  /\ \A i \in 1..num_results : results[i] = DaatOrResults(index, max_num_results_)[i]

-----------------------------------------------------------------------------
(* Termination of the main loop of MergeListsWand.  The function runs on   *)
(* its own thread of control from the call to the return: a step that can  *)
(* be taken is taken, which is weak fairness of the steps of the function. *)
(* The runs start where the main loop is entered.                          *)

MaxWandFairPostings == 4   \* postings in the whole collection, for the fair runs

(* the state in which MergeListsWand enters its main loop (lines 1412-1543), for the
   queries of several terms *)
InitWandLoop ==
  /\ index \in IndexesUpTo(MaxWandFairPostings)
  /\ index_layered_ = TRUE
  /\ index_overlapping_layers_ = TRUE
  /\ index_num_layers_ = 2
  /\ query_algorithm_ \in {"kWand", "kDualLayeredWand"}
  /\ max_num_results_ \in 1..MaxResults
  /\ Cardinality(LexiconTerms(index)) > 1
  /\ query_term_data = AllTermsQuery(index)
  /\ stop_words_ = {}
  /\ words = query_term_data
  /\ pc = "MergeListsWandLoop"
  /\ \E first \in {OpenFirstLayers(index, index_layered_, index_overlapping_layers_,
                                   index_num_layers_, query_term_data)} :
       \E td \in {TopDocsThreshold(index, first, max_num_results_,
                                   query_algorithm_ = "kDualLayeredWand")} :
         \E ip \in {InitCurrPostings(OpenLastLayers(index, index_layered_,
                                                    index_overlapping_layers_, index_num_layers_,
                                                    query_term_data), 0, <<>>)} :
           /\ lists = ip[1]
           /\ lists_curr_postings = ip[2]
           /\ results = td[1]
           /\ locals = [threshold |-> td[2], list_thresholds |-> ListThresholds(first)]
  /\ merge_lists = <<>>
  /\ did = 0
  /\ total_num_results = 0
  /\ scored = <<>>
  /\ num_results = -1

(* the steps of MergeListsWand from the entry of the main loop on *)
NextWandLoop ==
  \/ MergeListsWandLoop
  \/ MergeListsWandBreak
  \/ MergeListsWandReturn

SpecWandFair == InitWandLoop /\ [][NextWandLoop]_vars /\ WF_vars(NextWandLoop)

(* the docID every cursor stands on, kNoMoreDocs past the end of its list *)
CursorDocIds == [j \in 1..Len(lists) |-> CurrDocId(lists[j])]

(* an iteration moves no cursor back and moves at least one cursor forward *)
WandAdvances ==
  /\ \A j \in 1..Len(lists) : CurrDocId(lists'[j]) >= CurrDocId(lists[j])
  /\ \E j \in 1..Len(lists) : CurrDocId(lists'[j]) > CurrDocId(lists[j])

(* C28: WAND termination.  MergeListsWand returns on every list and every k, and
   every iteration of its main loop that does not leave the loop moves at least one
   cursor forward and none back. *)
C28_WandTerminates ==
  /\ <>(pc = "Done")
  /\ [][(pc = "MergeListsWandLoop" /\ pc' = "MergeListsWandLoop") => WandAdvances]_vars

(* the progress of the iterations alone, which the plain specification shows *)
C28_WandProgress ==
  [][(pc = "MergeListsWandLoop" /\ pc' = "MergeListsWandLoop") => WandAdvances]_vars

(* a query of several terms has returned after the loop scored some documents of the
   lists and skipped others *)
C28_Witness ==
  /\ pc = "Done"
  /\ Len(query_term_data) > 1
  /\ Len(scored) > 0
  /\ Len(scored) < Cardinality({d \in Docs : \E t \in LexiconTerms(index) : index[t][d] > 0})

(***************************************************************************)
(* The algorithm from the constructor to the evaluator: LoadIndexProperties *)
(* and the two switches of ExecuteQuery                                     *)
(***************************************************************************)

MaxMetaLayers == 3     \* the meta file states 1..MaxMetaLayers layers
MaxDispatchPostings == 1   \* postings in the collection the dispatch is run on

(* enum QueryAlgorithm, query_processor.h 62-83 *)
QueryAlgorithms == Algorithms \cup {"kDefault", "kTaatOr"}

(* KeyValueResult of a boolean key of the meta file: a value, or an error when
   the key is missing *)
MetaBooleanResults ==
  {[error |-> TRUE, value_t |-> FALSE]} \cup {[error |-> FALSE, value_t |-> b] : b \in BOOLEAN}

(* KeyValueResult of the number of layers *)
MetaNumericalResults ==
  {[error |-> TRUE, value_t |-> 0]} \cup {[error |-> FALSE, value_t |-> n] : n \in 1..MaxMetaLayers}

(* lines 2565-2576 and 2599-2604: the algorithm LoadIndexProperties leaves in
   query_algorithm_ *)
ChosenAlgorithm(algorithm, layered, overlapping) ==
  IF algorithm = "kDefault"
  THEN IF ~layered \/ overlapping THEN "kDaatAnd"
       ELSE IF layered /\ ~overlapping THEN "kLayeredTaatOrEarlyTerminated"
       ELSE algorithm
  ELSE algorithm

(* lines 2563-2598: inappropriate_algorithm *)
InappropriateAlgorithm(algorithm, layered, overlapping, num_layers) ==
  CASE algorithm \in {"kDaatAnd", "kDaatOr", "kWand", "kDualLayeredWand", "kMaxScore",
                      "kDualLayeredMaxScore", "kDaatAndTopPositions"} ->
         layered /\ ~overlapping
    [] algorithm \in {"kDualLayeredOverlappingDaat", "kDualLayeredOverlappingMergeDaat"} ->
         ~layered \/ ~overlapping \/ num_layers # 2
    [] algorithm = "kLayeredTaatOrEarlyTerminated" ->
         ~layered \/ overlapping
    [] OTHER -> FALSE

(* lines 1414-1416 and 1683-1685: the assertions at the entry of MergeListsWand and
   MergeListsMaxScore *)
EntryAssertions(layered, overlapping, num_layers) ==
  layered /\ overlapping /\ num_layers = 2

(* the constructor, lines 58-100, up to the call of LoadIndexProperties: locals holds
   the algorithm the processor was constructed with and the meta file *)
InitDispatch ==
  /\ index \in IndexesUpTo(MaxDispatchPostings)
  /\ index_layered_ = FALSE
  /\ index_overlapping_layers_ = FALSE
  /\ index_num_layers_ = 1
  /\ query_algorithm_ \in QueryAlgorithms
  /\ max_num_results_ = 1
  /\ query_term_data = <<>>
  /\ stop_words_ = {}
  /\ words = <<>>
  /\ pc = "LoadIndexProperties"
  /\ lists = <<>>
  /\ merge_lists = <<>>
  /\ lists_curr_postings = <<>>
  /\ did = 0
  /\ results = <<>>
  /\ total_num_results = 0
  /\ scored = <<>>
  /\ num_results = -1
  /\ \E layered_index_res \in MetaBooleanResults, overlapping_layers_res \in MetaBooleanResults,
        num_layers_res \in MetaNumericalResults :
       locals = [query_algorithm |-> query_algorithm_,
                 layered_index_res |-> layered_index_res,
                 overlapping_layers_res |-> overlapping_layers_res,
                 num_layers_res |-> num_layers_res,
                 processing_semantics |-> "unset"]

(* lines 2529-2608: the index properties are read from the meta file, kDefault is
   replaced, and an algorithm that does not fit the index, or kTaatOr, is a fatal
   error *)
LoadIndexProperties ==
  /\ pc = "LoadIndexProperties"
  /\ \E layered \in {IF locals.layered_index_res.error THEN FALSE
                     ELSE locals.layered_index_res.value_t} :
       \E overlapping \in {IF locals.overlapping_layers_res.error THEN FALSE
                           ELSE locals.overlapping_layers_res.value_t} :
         \E num_layers \in {IF locals.num_layers_res.error THEN 1
                            ELSE locals.num_layers_res.value_t} :
           /\ index_layered_' = layered
           /\ index_overlapping_layers_' = overlapping
           /\ index_num_layers_' = num_layers
           /\ query_algorithm_' = ChosenAlgorithm(query_algorithm_, layered, overlapping)
           /\ pc' = IF query_algorithm_ = "kTaatOr"
                       \/ InappropriateAlgorithm(query_algorithm_, layered, overlapping,
                                                 num_layers)
                    THEN "Fatal" ELSE "ExecuteQuerySemantics"
  /\ UNCHANGED <<index, max_num_results_, query_term_data, stop_words_, words, lists,
                 merge_lists, lists_curr_postings, did, results, total_num_results, scored,
                 num_results, locals>>

(* lines 2335-2386: the words of the query line and the switch that sets
   processing_semantics *)
ExecuteQuerySemantics ==
  /\ pc = "ExecuteQuerySemantics"
  /\ \E query_line \in QueryLines :
       \E w \in {QueryWords(query_line, stop_words_)} :
         /\ words' = w
         /\ IF w = <<>>
            THEN /\ pc' = "Done"
                 /\ UNCHANGED locals
            ELSE /\ locals' = [locals EXCEPT !.processing_semantics =
                                                ProcessingSemantics(query_algorithm_)]
                 /\ pc' = IF ProcessingSemantics(query_algorithm_) = "kUndefined"
                          THEN "UndefinedSemantics" ELSE "ExecuteQueryDispatch"
  /\ UNCHANGED <<index, index_layered_, index_overlapping_layers_, index_num_layers_,
                 query_algorithm_, max_num_results_, query_term_data, stop_words_, lists,
                 merge_lists, lists_curr_postings, did, results, total_num_results, scored,
                 num_results>>

(* line 2385, assert(false) in the default branch: the program aborts, or goes on
   with kUndefined in a build without assertions *)
UndefinedSemantics ==
  /\ pc = "UndefinedSemantics"
  /\ pc' \in {"Aborted", "ExecuteQueryDispatch"}
  /\ UNCHANGED <<index, index_layered_, index_overlapping_layers_, index_num_layers_,
                 query_algorithm_, max_num_results_, query_term_data, stop_words_, words,
                 lists, merge_lists, lists_curr_postings, did, results, total_num_results,
                 scored, num_results, locals>>

(* lines 2395-2445: the lexicon entries of the words and the switch that calls the
   evaluator *)
ExecuteQueryDispatch ==
  /\ pc = "ExecuteQueryDispatch"
  /\ \E found \in {GetEntries(index, words, 0)} :
       /\ query_term_data' = found
       /\ pc' = IF Len(found) = NumQueryTerms(locals.processing_semantics, words, Len(found))
                THEN Dispatch(query_algorithm_) ELSE "Done"
  /\ UNCHANGED <<index, index_layered_, index_overlapping_layers_, index_num_layers_,
                 query_algorithm_, max_num_results_, stop_words_, words, lists, merge_lists,
                 lists_curr_postings, did, results, total_num_results, scored, num_results,
                 locals>>

(* the entry of the evaluator: MergeListsWand and MergeListsMaxScore assert the index
   type (1414-1416, 1683-1685), and a failed assertion aborts the program or, in a
   build without assertions, is not tested; the default branch of the switch is
   assert(false) (2443-2444) *)
EvaluatorEntry ==
  /\ pc \in {"ProcessQuery", "ProcessLayeredQuery", "ProcessLayeredTaatPrunedEarlyTerminatedQuery",
             "MergeListsWand", "MergeListsMaxScore", "default"}
  /\ IF pc = "default"
        \/ (pc \in {"MergeListsWand", "MergeListsMaxScore"}
            /\ ~EntryAssertions(index_layered_, index_overlapping_layers_, index_num_layers_))
     THEN pc' \in {"Aborted", "Evaluating"}
     ELSE pc' = "Evaluating"
  /\ UNCHANGED <<index, index_layered_, index_overlapping_layers_, index_num_layers_,
                 query_algorithm_, max_num_results_, query_term_data, stop_words_, words,
                 lists, merge_lists, lists_curr_postings, did, results, total_num_results,
                 scored, num_results, locals>>

NextDispatch ==
  \/ LoadIndexProperties
  \/ ExecuteQuerySemantics
  \/ UndefinedSemantics
  \/ ExecuteQueryDispatch
  \/ EvaluatorEntry

SpecDispatch == InitDispatch /\ [][NextDispatch]_vars

(* C29: evaluator preconditions.  Whenever ExecuteQuery has dispatched to
   MergeListsWand or MergeListsMaxScore, after LoadIndexProperties accepted the
   algorithm, the index is layered, has overlapping layers and has exactly 2
   layers, so that the assertions at the entry of the two functions hold. *)
C29_EvaluatorPreconditions ==
  pc \in {"MergeListsWand", "MergeListsMaxScore"} =>
    EntryAssertions(index_layered_, index_overlapping_layers_, index_num_layers_)

(* the part of C29 that holds: the algorithms dispatched to on an index of layers
   that do not overlap are not WAND or MaxScore *)
C29_NotOnDisjointLayers ==
  pc \in {"MergeListsWand", "MergeListsMaxScore"} =>
    ~(index_layered_ /\ ~index_overlapping_layers_)

(* a dispatch to MergeListsWand or MergeListsMaxScore on an index of two overlapping
   layers, with a query term the lexicon holds *)
C29_Witness ==
  /\ pc \in {"MergeListsWand", "MergeListsMaxScore"}
  /\ EntryAssertions(index_layered_, index_overlapping_layers_, index_num_layers_)
  /\ Len(query_term_data) > 0

(* C30: the dispatch is total.  After LoadIndexProperties returned without a fatal
   error the algorithm is never kDefault, every accepted algorithm has AND or OR
   processing semantics, and neither the branch of undefined semantics nor the
   default branch of the dispatch switch is reached. *)
C30_DispatchTotal ==
  /\ pc \notin {"LoadIndexProperties", "Fatal"} => query_algorithm_ # "kDefault"
  /\ pc \notin {"LoadIndexProperties", "Fatal"} =>
       ProcessingSemantics(query_algorithm_) \in {"kAnd", "kOr"}
  /\ pc # "UndefinedSemantics"
  /\ pc # "default"

(* the parts of C30 that hold: kDefault is replaced, and the dispatch switch has a
   case for every accepted algorithm *)
C30_NeverDefault ==
  /\ pc \notin {"LoadIndexProperties", "Fatal"} => query_algorithm_ # "kDefault"
  /\ pc # "default"

(* a processor constructed with kDefault whose query reached an evaluator *)
C30_Witness ==
  /\ locals.query_algorithm = "kDefault"
  /\ pc \in {"ProcessQuery", "ProcessLayeredTaatPrunedEarlyTerminatedQuery"}
  /\ locals.processing_semantics \in {"kAnd", "kOr"}
  /\ Len(query_term_data) > 0
====
